---------------------------- MODULE Spec2Model ----------------------------
(***************************************************************************)
(* A model of neospring, a Spring '83 server: the key validity window      *)
(* (nskey.ParseKey), the board stores (MemoryStore, GCPStorageStore) and   *)
(* the request handlers (Server.handleGetKey, Server.handlePutKey).        *)
(*                                                                         *)
(* Times are whole seconds, UTC.                                           *)
(***************************************************************************)
EXTENDS Integers, Sequences, FiniteSets, TLC

(***************************************************************************)
(* Bounds of the model.                                                    *)
(***************************************************************************)
\* How many times the clock advances in one behaviour.
MaxTicks == 3

\* How many failed Puts in a row leave their board in the bucket.
MaxLanded == 1

(***************************************************************************)
(* time.Time: calendar arithmetic of the proleptic Gregorian calendar.     *)
(***************************************************************************)
Second == 1
Minute == 60 * Second
Hour == 60 * Minute

\* Days from 1970-01-01 to the civil date (y, m, d), m in 1..12.
DaysFromCivil(y, m, d) ==
    LET yy  == IF m <= 2 THEN y - 1 ELSE y
        era == yy \div 400
        yoe == yy - era * 400
        mp  == IF m > 2 THEN m - 3 ELSE m + 9
        doy == (153 * mp + 2) \div 5 + d - 1
        doe == yoe * 365 + yoe \div 4 - yoe \div 100 + doy
    IN  era * 146097 + doe - 719468

\* A time.Time is its number of seconds since 2068-01-01T00:00:00Z, which is
\* 35794 days after 1970-01-01: only the order and the differences of times
\* matter, and counted from there the years 2000 to 2136 fit the integers of
\* the model checker.
\* time.Date(year, month, day, hh, mi, ss, 0, time.UTC). As in Go, a month
\* outside 1..12 is normalised into the neighbouring years.
Date(year, month, day, hh, mi, ss) ==
    LET y == year + (month - 1) \div 12
        m == ((month - 1) % 12) + 1
    IN  (DaysFromCivil(y, m, day) - 35794) * 24 * Hour
            + hh * Hour + mi * Minute + ss

\* The civil (year, month) of a time: Time.Year() and Time.Month().
CivilOf(t) ==
    LET z   == t \div (24 * Hour) + 35794 + 719468
        era == z \div 146097
        doe == z - era * 146097
        yoe == (doe - doe \div 1460 + doe \div 36524 - doe \div 146096) \div 365
        doy == doe - (365 * yoe + yoe \div 4 - yoe \div 100)
        mp  == (5 * doy + 2) \div 153
        m   == IF mp < 10 THEN mp + 3 ELSE mp - 9
    IN  [year |-> yoe + era * 400 + (IF m <= 2 THEN 1 ELSE 0), month |-> m]

YearOf(t) == CivilOf(t).year
MonthOf(t) == CivilOf(t).month

\* t.After(u), t.Before(u), t.Add(d).
After(t, u) == t > u
Before(t, u) == t < u
Add(t, d) == t + d

(***************************************************************************)
(* nskey: key strings are sequences of one-character strings.              *)
(***************************************************************************)
\* The maximum valid lifetime of a key.
MaxLifetime == 2 * 365 * 24 * Hour

Digits == {"0", "1", "2", "3", "4", "5", "6", "7", "8", "9"}
HexLower == Digits \cup {"a", "b", "c", "d", "e", "f"}
HexAny == HexLower \cup {"A", "B", "C", "D", "E", "F"}

DigitVal(c) ==
    CASE c = "0" -> 0 [] c = "1" -> 1 [] c = "2" -> 2 [] c = "3" -> 3
      [] c = "4" -> 4 [] c = "5" -> 5 [] c = "6" -> 6 [] c = "7" -> 7
      [] c = "8" -> 8 [] c = "9" -> 9

\* strconv.Atoi of a two-digit string.
Atoi2(s) == 10 * DigitVal(s[1]) + DigitVal(s[2])

\* keyRE: \A[0-9a-f]{57}83e(0[1-9]|1[0-2])(\d\d)\z ; the two submatches, or
\* no match.
KeyRE(key) ==
    IF /\ Len(key) = 64
       /\ \A i \in 1..57 : key[i] \in HexLower
       /\ SubSeq(key, 58, 60) = <<"8", "3", "e">>
       /\ \/ key[61] = "0" /\ key[62] \in (Digits \ {"0"})
          \/ key[61] = "1" /\ key[62] \in {"0", "1", "2"}
       /\ key[63] \in Digits /\ key[64] \in Digits
    THEN [ok |-> TRUE, month |-> SubSeq(key, 61, 62), year |-> SubSeq(key, 63, 64)]
    ELSE [ok |-> FALSE]

\* relativeMonth: the first second of the month relativeMonths after t's.
relativeMonth(t, relativeMonths) ==
    LET year        == YearOf(t)
        targetMonth == MonthOf(t) + relativeMonths
    IN  CASE targetMonth = 0  -> Date(year - 1, 12, 1, 0, 0, 0)
          [] targetMonth = 13 -> Date(year + 1, 1, 1, 0, 0, 0)
          [] OTHER            -> Date(year, targetMonth, 1, 0, 0, 0)

\* parseKeyUnchecked: hex.DecodeString and the 32-byte length check.
parseKeyUnchecked(publicKey) ==
    IF /\ Len(publicKey) % 2 = 0
       /\ \A i \in 1..Len(publicKey) : publicKey[i] \in HexAny
       /\ Len(publicKey) \div 2 = 32
    THEN [err |-> "none", PublicKey |-> publicKey]
    ELSE [err |-> "other"]

\* A variant of ParseKey: the key's lifetime is counted from the end of the
\* expiry month instead of from its start.
ParseKeyLifetimeFromExpiry(key, now) ==
    LET m == KeyRE(key)
    IN  IF ~m.ok THEN [err |-> "KeyInvalid"]
        ELSE LET year        == Atoi2(m.year) + (YearOf(now) \div 100) * 100
                 expiryMonth == Date(year, Atoi2(m.month), 1, 0, 0, 0)
                 expiresAt   == Add(relativeMonth(expiryMonth, 1), -1 * Second)
                 validAt     == Add(expiresAt, -MaxLifetime)
             IN  IF After(now, expiresAt) THEN [err |-> "KeyExpired"]
                 ELSE IF After(validAt, now) THEN [err |-> "KeyNotYetValid"]
                 ELSE parseKeyUnchecked(key)

\* ParseKey(key, now): the parsed key, or which of the three errors.
ParseKey(key, now) ==
    LET m == KeyRE(key)
    IN  IF ~m.ok THEN [err |-> "KeyInvalid"]
        ELSE LET year        == Atoi2(m.year) + (YearOf(now) \div 100) * 100
                 expiryMonth == Date(year, Atoi2(m.month), 1, 0, 0, 0)
                 expiresAt   == Add(relativeMonth(expiryMonth, 1), -1 * Second)
                 validAt     == Add(expiryMonth, -MaxLifetime)
             IN  IF After(now, expiresAt) THEN [err |-> "KeyExpired"]
                 ELSE IF After(validAt, now) THEN [err |-> "KeyNotYetValid"]
                 ELSE parseKeyUnchecked(key)


(***************************************************************************)
(* nsstore: boards and the two BoardStore implementations.                 *)
(*                                                                         *)
(* A Go map is a function on the set of its keys.                          *)
(***************************************************************************)
\* Spring '83 dictates a max content age of 22 days.
MaxContentAge == 22 * 24 * Hour

EmptyMap == [x \in {} |-> x]
MapSet(m, k, v) == [x \in (DOMAIN m) \cup {k} |-> IF x = k THEN v ELSE m[x]]
MapDelete(m, ks) == [x \in (DOMAIN m) \ ks |-> m[x]]

ErrKeyNotFound == [err |-> "ErrKeyNotFound"]
ErrIO == [err |-> "io"]
Found(board) == [err |-> "none", board |-> board]

\* A variant of MemoryStoreGet: a board is stale from timestamp + 22 days on.
MemoryStoreGetStaleAtLimit(boardsMap, key, timeNow) ==
    IF key \notin DOMAIN boardsMap THEN ErrKeyNotFound
    ELSE IF ~Before(timeNow, Add(boardsMap[key].Timestamp, MaxContentAge))
         THEN ErrKeyNotFound
         ELSE Found(boardsMap[key])

\* MemoryStore.Get
MemoryStoreGet(boardsMap, key, timeNow) ==
    IF key \notin DOMAIN boardsMap THEN ErrKeyNotFound
    ELSE IF After(timeNow, Add(boardsMap[key].Timestamp, MaxContentAge))
         THEN ErrKeyNotFound
         ELSE Found(boardsMap[key])

\* MemoryStore.Put
MemoryStorePut(boardsMap, key, board) == MapSet(boardsMap, key, board)

\* MemoryStore.reap: the map after one sweep, and how many entries it deleted.
reap(boardsMap, timeNow) ==
    LET stale == {k \in DOMAIN boardsMap :
                     After(timeNow, Add(boardsMap[k].Timestamp, MaxContentAge))}
    IN  [boards |-> MapDelete(boardsMap, stale), numReaped |-> Cardinality(stale)]

\* The object stored in the bucket: the board under its JSON field names.
serializedBoardFrom(b) ==
    [content |-> b.Content, signature |-> b.Signature, timestamp |-> b.Timestamp]

\* A variant of ToBoard: the signature is not carried over.
ToBoardWithoutSignature(sb) ==
    [Content |-> sb.content, Signature |-> [kind |-> "empty"], Timestamp |-> sb.timestamp]

ToBoard(sb) ==
    [Content |-> sb.content, Signature |-> sb.signature, Timestamp |-> sb.timestamp]

\* A variant of GCPStorageStoreGet: a board read from the bucket is returned
\* without being put into the memory store.
GCPStorageStoreGetUncached(cache, objects, key, timeNow, readFails) ==
    LET cached == MemoryStoreGet(cache, key, timeNow)
    IN  IF cached.err = "none" THEN [res |-> cached, boards |-> cache]
        ELSE IF readFails THEN [res |-> ErrIO, boards |-> cache]
        ELSE IF key \notin DOMAIN objects THEN [res |-> ErrKeyNotFound, boards |-> cache]
        ELSE IF After(timeNow, Add(objects[key].timestamp, MaxContentAge))
             THEN [res |-> ErrKeyNotFound, boards |-> cache]
             ELSE [res |-> Found(ToBoard(objects[key])), boards |-> cache]

\* A variant of GCPStorageStorePut: the memory store is given the board
\* before the bucket is written.
GCPStorageStorePutCacheFirst(cache, objects, key, board, fault) ==
    CASE fault = "unwritten" ->
           [err |-> "io", boards |-> MemoryStorePut(cache, key, board), bucket |-> objects]
      [] fault = "written" ->
           [err |-> "io", boards |-> MemoryStorePut(cache, key, board),
            bucket |-> MapSet(objects, key, serializedBoardFrom(board))]
      [] OTHER ->
           [err |-> "none",
            boards |-> MemoryStorePut(cache, key, board),
            bucket |-> MapSet(objects, key, serializedBoardFrom(board))]

\* GCPStorageStore.Get: the result and the cache afterwards. readFails: the
\* bucket read or the JSON decoding fails with an error other than "no such
\* object".
GCPStorageStoreGet(cache, objects, key, timeNow, readFails) ==
    LET cached == MemoryStoreGet(cache, key, timeNow)
    IN  IF cached.err = "none" THEN [res |-> cached, boards |-> cache]
        ELSE IF readFails THEN [res |-> ErrIO, boards |-> cache]
        ELSE IF key \notin DOMAIN objects THEN [res |-> ErrKeyNotFound, boards |-> cache]
        ELSE IF After(timeNow, Add(objects[key].timestamp, MaxContentAge))
             THEN [res |-> ErrKeyNotFound, boards |-> cache]
             ELSE [res |-> Found(ToBoard(objects[key])),
                   boards |-> MemoryStorePut(cache, key, ToBoard(objects[key]))]

\* GCPStorageStore.Put: the error, the cache and the bucket afterwards.
\* fault: "none", or encoding to the bucket writer or closing it fails, with
\* the object not written ("unwritten") or written all the same ("written").
GCPStorageStorePut(cache, objects, key, board, fault) ==
    CASE fault = "unwritten" ->
           [err |-> "io", boards |-> cache, bucket |-> objects]
      [] fault = "written" ->
           [err |-> "io", boards |-> cache,
            bucket |-> MapSet(objects, key, serializedBoardFrom(board))]
      [] OTHER ->
           [err |-> "none",
            boards |-> MemoryStorePut(cache, key, board),
            bucket |-> MapSet(objects, key, serializedBoardFrom(board))]

\* BoardStore.Get / BoardStore.Put, dispatched on the implementation.
BoardStoreGet(storeKind, cache, objects, key, timeNow, ioFails) ==
    IF storeKind = "memory"
    THEN [res |-> MemoryStoreGet(cache, key, timeNow), boards |-> cache]
    ELSE GCPStorageStoreGet(cache, objects, key, timeNow, ioFails)

BoardStorePut(storeKind, cache, objects, key, board, fault) ==
    IF storeKind = "memory"
    THEN [err |-> "none", boards |-> MemoryStorePut(cache, key, board), bucket |-> objects]
    ELSE GCPStorageStorePut(cache, objects, key, board, fault)

(***************************************************************************)
(* Request bodies, signatures and headers.                                 *)
(*                                                                         *)
(* A body is its length in bytes, the matches of timestampRE in it, in     *)
(* order, and the text that is left when the tags and the white space are  *)
(* taken out. A tag is the time its datetime denotes, or is unparseable    *)
(* (it matches timestampRE and time.Parse rejects it, as seconds 79).      *)
(***************************************************************************)
MaxContentSize == 2217
SignatureSize == 64
TimestampTolerance == 5 * Minute

Tag(t) == [ok |-> TRUE, t |-> t]
BadTag == [ok |-> FALSE]
Content(size, tags, text) == [size |-> size, tags |-> tags, text |-> text]

\* timestampRE.FindStringSubmatch(content): the first tag, if any.
FindTimestamp(content) ==
    IF content.tags = <<>> THEN [found |-> FALSE]
    ELSE [found |-> TRUE, tag |-> content.tags[1]]

\* isTimestampOnly: nothing but white space is left without the first tag.
isTimestampOnly(content) ==
    IF ~FindTimestamp(content).found THEN FALSE
    ELSE Len(content.tags) = 1 /\ content.text = ""

\* KeyPair.Sign: the 64 bytes that verify for this key and this message only.
Sign(publicKey, message) ==
    [len |-> SignatureSize, signer |-> publicKey, msg |-> message]

\* hex.EncodeToString / hex.DecodeString on a header value.
HexEncode(bytes) == [kind |-> "hex", bytes |-> bytes]
HexDecode(str) ==
    IF str.kind = "hex" THEN [ok |-> TRUE, bytes |-> str.bytes] ELSE [ok |-> FALSE]

SignHex(publicKey, message) == HexEncode(Sign(publicKey, message))

\* Key.Verify: ed25519.Verify under the key's public bytes.
Verify(publicKey, message, sig) ==
    sig.len = SignatureSize /\ sig.signer = publicKey /\ sig.msg = message

\* Header values that are no signature.
EmptyHeader == [kind |-> "empty"]
NotHex == [kind |-> "nothex"]
ShortHex == HexEncode([len |-> 2, signer |-> <<>>, msg |-> Content(0, <<>>, "")])

(***************************************************************************)
(* The keys of the model.                                                  *)
(***************************************************************************)
Prefix(c) == [i \in 1..57 |-> c]

TestPublicKey == Prefix("a") \o <<"8", "3", "e", "0", "5", "8", "3">>
samplePublicKey == Prefix("e") \o <<"8", "3", "e", "1", "1", "2", "4">>
InfernalPublicKey == Prefix("d") \o <<"8", "3", "e", "0", "1", "2", "3">>
otherPublicKey == Prefix("c") \o <<"8", "3", "e", "1", "1", "2", "4">>

\* A variant of Contains: nothing is denied.
ContainsNothing(key) == FALSE

\* MemoryDenyList.Contains on the base deny list.
baseDenyList == {InfernalPublicKey}
Contains(key) == key \in baseDenyList

\* The server's clock in the tests.
stableTime == Date(2022, 11, 9, 10, 11, 12)

(***************************************************************************)
(* Server: responses.                                                      *)
(***************************************************************************)
\* The messages of the access checks and of internal errors (without the
\* backquotes around MMYY, 83eMMYY, MM and YY).
ErrMessageDeniedKey == "This key is denied."
ErrMessageInternalError ==
    "An internal error has occurred. Please report this to the server operator."
ErrMessageKeyExpired ==
    "The given key is expired. The last four digits MMYY represent a month and year number which is now allowed to exceed the current month and year."
ErrMessageKeyInvalid ==
    "The given key is invalid. It should be exactly 64 characters in length and be suffixed with 83eMMYY where MM is a valid month number and YY are the last two digits of a year."
ErrMessageKeyNotYetValid ==
    "The given key is not yet valid. The last four digits MMYY represent a month and year number which must be within two years of the current month and year."
ErrMessageTestKey ==
    "This request was made with Spring '83's test key, which is always rejected according to the specification."

NewServerError(statusCode, message) ==
    [status |-> statusCode, body |-> message]

\* An error that is no ServerError: wrapEndpoint answers 500 with the generic
\* message.
InternalError == [status |-> 500, body |-> ErrMessageInternalError]

BoardNotFound(key) == NewServerError(404, [notFound |-> key])

\* A variant of KeyError: one message for the three failures.
KeyErrorOneMessage(err) == NewServerError(403, ErrMessageKeyInvalid)

\* The mapping of ParseKey's errors, shared by GET and PUT.
KeyError(err) ==
    CASE err = "KeyExpired"     -> NewServerError(403, ErrMessageKeyExpired)
      [] err = "KeyInvalid"     -> NewServerError(403, ErrMessageKeyInvalid)
      [] err = "KeyNotYetValid" -> NewServerError(403, ErrMessageKeyNotYetValid)
      [] OTHER                  -> InternalError

(***************************************************************************)
(* Server.handlePutKey                                                     *)
(***************************************************************************)
Fail(resp) == [ok |-> FALSE, resp |-> resp]

\* A variant of SignatureVerifies: the signer is checked, the message is not.
SignatureVerifiesAnyMessage(keyObj, content, sig) ==
    sig.signer = keyObj.PublicKey

\* keyObj.Verify(content, sig)
SignatureVerifies(keyObj, content, sig) ==
    Verify(keyObj.PublicKey, content, sig)

\* A variant of TimestampInFuture: the tolerance is added on the wrong side.
TimestampInFutureNoTolerance(timestamp, timeNow) ==
    After(Add(timestamp, TimestampTolerance), timeNow)

\* timestamp.Add(-TimestampTolerance).After(s.timeNow())
TimestampInFuture(timestamp, timeNow) ==
    After(Add(timestamp, -TimestampTolerance), timeNow)

\* timestamp.Add(TimestampTolerance).Before(s.timeNow().Add(-MaxContentAge))
TimestampTooOld(timestamp, timeNow) ==
    Before(Add(timestamp, TimestampTolerance), Add(timeNow, -MaxContentAge))

\* A variant of TimestampOlderThanCurrent: the stored board is never consulted.
TimestampNeverOlder(get, timestamp) == FALSE

\* A variant of TimestampOlderThanCurrent: an equal timestamp conflicts too.
TimestampOlderOrEqual(get, timestamp) ==
    get.err = "none" /\ ~Before(get.board.Timestamp, timestamp)

\* err == nil && board.Timestamp.After(timestamp), on the result of the
\* store's Get.
TimestampOlderThanCurrent(get, timestamp) ==
    get.err = "none" /\ After(get.board.Timestamp, timestamp)

\* The timestamp checks of handlePutKey: the response of the first one that
\* fails, or the parsed timestamp.
TimestampChecks(content, timeNow) ==
    IF ~FindTimestamp(content).found
    THEN Fail(NewServerError(400, "ErrMessageTimestampMissing"))
    ELSE IF ~FindTimestamp(content).tag.ok
    THEN Fail(NewServerError(400, "ErrMessageTimestampUnparseable"))
    ELSE IF TimestampInFuture(FindTimestamp(content).tag.t, timeNow)
    THEN Fail(NewServerError(400, "ErrMessageTimestampInFuture"))
    ELSE IF TimestampTooOld(FindTimestamp(content).tag.t, timeNow)
    THEN Fail(NewServerError(400, "ErrMessageTimestampTooOld"))
    ELSE [ok |-> TRUE, timestamp |-> FindTimestamp(content).tag.t]

\* A variant of SignatureChecks: the timestamp checks come first.
SignatureChecksAfterTimestamp(keyObj, content, sigStr, timeNow) ==
    IF ~TimestampChecks(content, timeNow).ok
    THEN TimestampChecks(content, timeNow)
    ELSE IF sigStr.kind = "empty"
    THEN Fail(NewServerError(400, "ErrMessageSignatureMissing"))
    ELSE IF ~HexDecode(sigStr).ok
    THEN Fail(NewServerError(400, "ErrMessageSignatureUnparseable"))
    ELSE IF HexDecode(sigStr).bytes.len # SignatureSize
    THEN Fail(NewServerError(400, "ErrMessageSignatureBadLength"))
    ELSE IF ~SignatureVerifies(keyObj, content, HexDecode(sigStr).bytes)
    THEN Fail(NewServerError(401, "ErrMessageSignatureInvalid"))
    ELSE TimestampChecks(content, timeNow)

\* The signature checks of handlePutKey, then the timestamp checks.
SignatureChecks(keyObj, content, sigStr, timeNow) ==
    IF sigStr.kind = "empty"
    THEN Fail(NewServerError(400, "ErrMessageSignatureMissing"))
    ELSE IF ~HexDecode(sigStr).ok
    THEN Fail(NewServerError(400, "ErrMessageSignatureUnparseable"))
    ELSE IF HexDecode(sigStr).bytes.len # SignatureSize
    THEN Fail(NewServerError(400, "ErrMessageSignatureBadLength"))
    ELSE IF ~SignatureVerifies(keyObj, content, HexDecode(sigStr).bytes)
    THEN Fail(NewServerError(401, "ErrMessageSignatureInvalid"))
    ELSE TimestampChecks(content, timeNow)

\* A request body that io.ReadAll cannot read to its end.
Unreadable == [size |-> 0, tags |-> <<>>, text |-> "", err |-> "read"]

\* io.ReadAll(r.Body) returns an error.
ReadAllFails(content) == "err" \in DOMAIN content

\* A variant of PutKeyChecks: the test key is checked like any other key.
PutKeyChecksWithoutTestKey(key, content, sigStr, timeNow) ==
    IF ParseKey(key, timeNow).err # "none"
    THEN Fail(KeyError(ParseKey(key, timeNow).err))
    ELSE IF Contains(key)
    THEN Fail(NewServerError(403, ErrMessageDeniedKey))
    ELSE IF ReadAllFails(content)
    THEN Fail(InternalError)
    ELSE IF content.size > MaxContentSize
    THEN Fail(NewServerError(413, "ErrMessageContentTooLarge"))
    ELSE SignatureChecks(ParseKey(key, timeNow), content, sigStr, timeNow)

\* The checks handlePutKey makes before it reads the store: the response of
\* the first one that fails, or the parsed timestamp.
PutKeyChecks(key, content, sigStr, timeNow) ==
    IF key = TestPublicKey
    THEN Fail(NewServerError(401, ErrMessageTestKey))
    ELSE IF ParseKey(key, timeNow).err # "none"
    THEN Fail(KeyError(ParseKey(key, timeNow).err))
    ELSE IF Contains(key)
    THEN Fail(NewServerError(403, ErrMessageDeniedKey))
    ELSE IF ReadAllFails(content)
    THEN Fail(InternalError)
    ELSE IF content.size > MaxContentSize
    THEN Fail(NewServerError(413, "ErrMessageContentTooLarge"))
    ELSE SignatureChecks(ParseKey(key, timeNow), content, sigStr, timeNow)

\* The end of handlePutKey, from the result of the store's Get: 409, or 200.
\* Nothing is written to the store.
PutKeyRespond(get, timestamp) ==
    IF TimestampOlderThanCurrent(get, timestamp)
    THEN NewServerError(409, "ErrMessageTimestampOlderThanCurrent")
    ELSE [status |-> 200, body |-> "MessageKeyUpdated", SpringVersion |-> "83"]

\* A variant of PutKeyStore: the accepted board is put into the store.
PutKeyStorePersists(storeKind, cache, objects, key, content, sigStr, timestamp) ==
    BoardStorePut(storeKind, cache, objects, key,
                  [Content |-> content, Signature |-> sigStr, Timestamp |-> timestamp],
                  "none")

\* What handlePutKey does to the store between the timestamp comparison and
\* its 200 response: nothing, it calls no Put.
PutKeyStore(storeKind, cache, objects, key, content, sigStr, timestamp) ==
    [boards |-> cache, bucket |-> objects]

\* A variant of PutKeyFinish: the board is put into the store before its
\* timestamp is compared with the current board's.
PutKeyFinishStoresFirst(storeKind, cache, objects, key, content, sigStr, timestamp, timeNow, ioFails) ==
    LET get  == BoardStoreGet(storeKind, cache, objects, key, timeNow, ioFails)
        resp == PutKeyRespond(get.res, timestamp)
        put  == BoardStorePut(storeKind, get.boards, objects, key,
                              [Content |-> content, Signature |-> sigStr,
                               Timestamp |-> timestamp], "none")
    IN  [resp |-> resp, boards |-> put.boards, bucket |-> put.bucket]

\* handlePutKey from the store read on, for a request that passed the checks
\* with this timestamp.
PutKeyFinish(storeKind, cache, objects, key, content, sigStr, timestamp, timeNow, ioFails) ==
    LET get  == BoardStoreGet(storeKind, cache, objects, key, timeNow, ioFails)
        resp == PutKeyRespond(get.res, timestamp)
        put  == PutKeyStore(storeKind, get.boards, objects, key, content, sigStr, timestamp)
    IN  IF resp.status = 200
        THEN [resp |-> resp, boards |-> put.boards, bucket |-> put.bucket]
        ELSE [resp |-> resp, boards |-> get.boards, bucket |-> objects]

\* handlePutKey for a request that one of the checks turns away.
PutKeyRejected(cache, objects, resp) ==
    [resp |-> resp, boards |-> cache, bucket |-> objects]

(***************************************************************************)
(* Server.handleGetKey                                                     *)
(***************************************************************************)
\* The quotes the test key answers with (they hold no <time> tag).
quotes == <<Content(40, <<>>, "quote 1"), Content(60, <<>>, "quote 2")>>

\* getRandomQuote: quotes[randutil.Intn(len(quotes) - 1)]
getRandomQuote == {quotes[i + 1] : i \in 0..(Len(quotes) - 2)}

\* The board randomizeTestKeyBoard builds.
TestKeyBoard(content, timeNow) ==
    [Content |-> content, Signature |-> SignHex(TestPublicKey, content),
     Timestamp |-> timeNow]

\* The 200 response carrying a board.
BoardResponse(board) ==
    [status |-> 200, body |-> board.Content, LastModified |-> board.Timestamp,
     SpringSignature |-> board.Signature, SpringVersion |-> "83"]

\* If-Modified-Since header values.
NoHeader == [kind |-> "absent"]
BadDate == [kind |-> "bad"]
HTTPDate(t) == [kind |-> "date", t |-> t]

\* A variant of GetKeyRespond: a board is also hidden from an
\* If-Modified-Since equal to its timestamp.
GetKeyRespondNotBefore(key, get, ifModifiedSince) ==
    IF get.err = "ErrKeyNotFound" THEN BoardNotFound(key)
    ELSE IF get.err # "none" THEN InternalError
    ELSE IF isTimestampOnly(get.board.Content) THEN BoardNotFound(key)
    ELSE IF ifModifiedSince.kind = "bad"
         THEN NewServerError(400, [ifModifiedSinceParse |-> ifModifiedSince])
    ELSE IF ifModifiedSince.kind = "date" /\ ~Before(ifModifiedSince.t, get.board.Timestamp)
         THEN BoardNotFound(key)
    ELSE BoardResponse(get.board)

\* A variant of GetKeyRespond: If-Modified-Since is parsed before the board
\* is looked at.
GetKeyRespondHeaderFirst(key, get, ifModifiedSince) ==
    IF get.err = "ErrKeyNotFound" THEN BoardNotFound(key)
    ELSE IF get.err # "none" THEN InternalError
    ELSE IF ifModifiedSince.kind = "bad"
         THEN NewServerError(400, [ifModifiedSinceParse |-> ifModifiedSince])
    ELSE IF isTimestampOnly(get.board.Content) THEN BoardNotFound(key)
    ELSE IF ifModifiedSince.kind = "date" /\ After(ifModifiedSince.t, get.board.Timestamp)
         THEN BoardNotFound(key)
    ELSE BoardResponse(get.board)

\* handleGetKey for another key than the test key, from the result of the
\* store's Get.
GetKeyRespond(key, get, ifModifiedSince) ==
    IF get.err = "ErrKeyNotFound" THEN BoardNotFound(key)
    ELSE IF get.err # "none" THEN InternalError
    ELSE IF isTimestampOnly(get.board.Content) THEN BoardNotFound(key)
    ELSE IF ifModifiedSince.kind = "bad"
         THEN NewServerError(400, [ifModifiedSinceParse |-> ifModifiedSince])
    ELSE IF ifModifiedSince.kind = "date" /\ After(ifModifiedSince.t, get.board.Timestamp)
         THEN BoardNotFound(key)
    ELSE BoardResponse(get.board)

\* A variant of GetTestKey: the board is answered without being put into the
\* store.
GetTestKeyWithoutPut(storeKind, cache, objects, timeNow, quote, ioFails) ==
    [resp   |-> BoardResponse(TestKeyBoard(quote, timeNow)),
     boards |-> cache,
     bucket |-> objects]

\* handleGetKey for the test key: randomizeTestKeyBoard, then the response.
GetTestKey(storeKind, cache, objects, timeNow, quote, ioFails) ==
    LET board == TestKeyBoard(quote, timeNow)
        put   == BoardStorePut(storeKind, cache, objects, TestPublicKey, board,
                               IF ioFails THEN "unwritten" ELSE "none")
    IN  [resp   |-> IF put.err # "none" THEN InternalError ELSE BoardResponse(board),
         boards |-> put.boards,
         bucket |-> put.bucket]

\* handleGetKey: the response, and the store afterwards.
handleGetKey(storeKind, cache, objects, key, ifModifiedSince, timeNow, quote, ioFails) ==
    IF key = TestPublicKey
    THEN GetTestKey(storeKind, cache, objects, timeNow, quote, ioFails)
    ELSE IF ParseKey(key, timeNow).err # "none"
    THEN [resp |-> KeyError(ParseKey(key, timeNow).err), boards |-> cache, bucket |-> objects]
    ELSE IF Contains(key)
    THEN [resp |-> NewServerError(403, ErrMessageDeniedKey), boards |-> cache, bucket |-> objects]
    ELSE LET get == BoardStoreGet(storeKind, cache, objects, key, timeNow, ioFails)
         IN  [resp   |-> GetKeyRespond(key, get.res, ifModifiedSince),
              boards |-> get.boards,
              bucket |-> objects]

(***************************************************************************)
(* The state.                                                              *)
(***************************************************************************)
VARIABLES
    now,      \* the clock every timeNow() reads
    ticks,    \* how many times the clock has advanced
    kind,     \* which BoardStore implementation is in use: "memory" or "gcp"
    boards,   \* MemoryStore.boards (for "gcp": the boards of its memoryStore)
    bucket,   \* the objects in the GCP bucket, by key
    latest,   \* history of StorePut, by key: the board of the last Put that
              \* succeeded, and the boards failed Puts since left in the bucket
    inflight, \* the PUT requests being handled concurrently, by handler
    last,     \* the last operation, what it was given and what it returned
    miner,    \* one call of generateConformingKeyWithSuffix: its flag, its
              \* channel, its workers and what it returned
    shadow,   \* MemoryStore.boards in a run of the same Gets and Puts in
              \* which ReapLoop is never started
    reaper    \* the MemoryStore's reapLoopStarted, its mutex, the shutdown
              \* channel and the position of every call of ReapLoop

vars == <<now, ticks, kind, boards, bucket, latest, inflight, last, miner, shadow, reaper>>

\* No key is being generated.
NoMiner == [pc |-> "off"]

\* ReapLoop is never called.
NoReaper == [pc |-> "off"]

Handlers == {1, 2}
Idle == [pc |-> "idle"]

Init ==
    /\ now = stableTime
    /\ ticks = 0
    /\ kind = "memory"
    /\ boards = EmptyMap
    /\ bucket = EmptyMap
    /\ latest = EmptyMap
    /\ inflight = [h \in Handlers |-> Idle]
    /\ last = [op |-> "init"]
    /\ miner = NoMiner
    /\ shadow = EmptyMap
    /\ reaper = NoReaper

(***************************************************************************)
(* The requests of the model.                                              *)
(***************************************************************************)
\* The clock advances by a second or by the maximum content age.
TickDeltas == {1 * Second, MaxContentAge}

\* Timestamps of submitted boards, relative to the clock: on and next to the
\* limits of the accepted window, and at and just before now.
PutOffsets ==
    {-(MaxContentAge + TimestampTolerance) - 1, -(MaxContentAge + TimestampTolerance),
     -1, 0, TimestampTolerance, TimestampTolerance + 1}

Body(t) == Content(60, <<Tag(t)>>, "some other content")

Signed(key, content) == [key |-> key, content |-> content, sig |-> SignHex(key, content)]

\* Well-formed, correctly signed PUTs for the sample key.
SignedPuts(t) == {Signed(samplePublicKey, Body(t + o)) : o \in PutOffsets}

\* PUTs that fail one check each, and the bodies of the greatest length.
OtherPuts(t) ==
    {Signed(TestPublicKey, Body(t)),
     Signed(InfernalPublicKey, Body(t)),
     Signed(samplePublicKey, Content(MaxContentSize + 1, <<Tag(t)>>, "long")),
     Signed(samplePublicKey, Content(MaxContentSize, <<Tag(t)>>, "long")),
     Signed(samplePublicKey, Content(30, <<>>, "some content without timestamp")),
     Signed(samplePublicKey, Content(60, <<BadTag>>, "some other content")),
     [key |-> samplePublicKey, content |-> Body(t), sig |-> EmptyHeader],
     [key |-> samplePublicKey, content |-> Body(t), sig |-> NotHex],
     [key |-> samplePublicKey, content |-> Body(t), sig |-> ShortHex],
     [key |-> samplePublicKey, content |-> Body(t),
      sig |-> SignHex(samplePublicKey, Content(13, <<>>, "other content"))],
     [key |-> samplePublicKey, content |-> Body(t),
      sig |-> SignHex(otherPublicKey, Body(t))]}

PutRequests(t) == SignedPuts(t) \cup OtherPuts(t)

GetKeys == {TestPublicKey, samplePublicKey, InfernalPublicKey}
IfModifiedSinceValues(t) == {NoHeader, BadDate, HTTPDate(t)}

\* Boards put into the store directly, as the tests' storeKeyContent does:
\* stamped now, with some text or with the <time> tag only.
SeedBoards(key, t) ==
    {[Content |-> c, Signature |-> SignHex(key, c), Timestamp |-> t] :
        c \in {Content(50, <<Tag(t)>>, "some board content"), Content(37, <<Tag(t)>>, "")}}

(***************************************************************************)
(* The server's actions: each request is handled in one step.              *)
(***************************************************************************)
\* The entry a map holds for a key, if any.
Entry(m, key) ==
    IF key \in DOMAIN m THEN [had |-> TRUE, board |-> m[key]] ELSE [had |-> FALSE]

\* Time passes.
Tick ==
    /\ ticks < MaxTicks
    /\ \E d \in TickDeltas : now' = now + d
    /\ ticks' = ticks + 1
    /\ last' = [op |-> "tick"]
    /\ UNCHANGED <<kind, boards, bucket, latest, inflight, miner, shadow, reaper>>

\* GET /{key}
GetKey ==
    \E key \in GetKeys, ims \in IfModifiedSinceValues(now), quote \in getRandomQuote :
        \E r \in {handleGetKey(kind, boards, bucket, key, ims, now, quote, FALSE)} :
            /\ boards' = r.boards
            /\ bucket' = r.bucket
            /\ last' = [op |-> "GET", key |-> key, ims |-> ims, resp |-> r.resp,
                        prev |-> Entry(boards, key)]
            /\ UNCHANGED <<now, ticks, kind, latest, inflight, miner, shadow, reaper>>

\* PUT /{key}: handlePutKey, its checks and then, for a request that passes
\* them, the store read and the answer.
PutKey ==
    \E req \in PutRequests(now) :
        \E pre \in {PutKeyChecks(req.key, req.content, req.sig, now)} :
            \E r \in {IF pre.ok
                       THEN PutKeyFinish(kind, boards, bucket, req.key, req.content,
                                         req.sig, pre.timestamp, now, FALSE)
                       ELSE PutKeyRejected(boards, bucket, pre.resp)} :
                /\ boards' = r.boards
                /\ bucket' = r.bucket
                /\ last' = [op |-> "PUT", key |-> req.key, content |-> req.content,
                            sig |-> req.sig, resp |-> r.resp,
                            prev |-> Entry(boards, req.key)]
                /\ UNCHANGED <<now, ticks, kind, latest, inflight, miner, shadow, reaper>>

\* One sweep of the reaper (ReapLoop runs reap once a minute).
Reap ==
    \E r \in {reap(boards, now)} :
        /\ boards' = r.boards
        /\ last' = [op |-> "reap", numReaped |-> r.numReaped]
        /\ UNCHANGED <<now, ticks, kind, bucket, latest, inflight, miner, shadow, reaper>>

\* The owner of the store puts a board for the sample key into it.
SeedBoard ==
    \E b \in SeedBoards(samplePublicKey, now) :
        \E r \in {BoardStorePut(kind, boards, bucket, samplePublicKey, b, "none")} :
            /\ boards' = r.boards
            /\ bucket' = r.bucket
            /\ last' = [op |-> "seed", key |-> samplePublicKey, board |-> b]
            /\ UNCHANGED <<now, ticks, kind, latest, inflight, miner, shadow, reaper>>

\* The requests alone: what the server does to a store nobody else writes.
NextRequests == Tick \/ GetKey \/ PutKey \/ Reap

SpecRequests == Init /\ [][NextRequests]_vars

\* The server on a store that its owner also writes.
Next == Tick \/ GetKey \/ PutKey \/ Reap \/ SeedBoard

Spec == Init /\ [][Next]_vars

(***************************************************************************)
(* Two PUTs handled concurrently: each handler runs the checks of its      *)
(* request, then reads the store and answers.                              *)
(***************************************************************************)
\* A handler takes a request and runs handlePutKey up to the store read.
PutBegin ==
    \E h \in Handlers, req \in SignedPuts(now) :
        /\ inflight[h].pc = "idle"
        /\ \E pre \in {PutKeyChecks(req.key, req.content, req.sig, now)} :
               inflight' = [inflight EXCEPT ![h] =
                   IF pre.ok
                   THEN [pc |-> "checked", req |-> req, timestamp |-> pre.timestamp]
                   ELSE [pc |-> "done", req |-> req, resp |-> pre.resp]]
        /\ UNCHANGED <<now, ticks, kind, boards, bucket, latest, last, miner, shadow, reaper>>

\* A handler reads the store, compares the timestamps and answers.
PutFinish ==
    \E h \in Handlers :
        /\ inflight[h].pc = "checked"
        /\ \E r \in {PutKeyFinish(kind, boards, bucket, inflight[h].req.key,
                                  inflight[h].req.content, inflight[h].req.sig,
                                  inflight[h].timestamp, now, FALSE)} :
               /\ boards' = r.boards
               /\ bucket' = r.bucket
               /\ inflight' = [inflight EXCEPT ![h] =
                      [pc |-> "done", req |-> inflight[h].req, resp |-> r.resp]]
        /\ UNCHANGED <<now, ticks, kind, latest, last, miner, shadow, reaper>>

NextConc == PutBegin \/ PutFinish

SpecConc == Init /\ [][NextConc]_vars

(***************************************************************************)
(* A BoardStore on its own: Get and Put called directly, the reaper, the   *)
(* clock, and for the GCP store a new process on the same bucket.          *)
(***************************************************************************)
NoBoard == [had |-> FALSE]
Held(b) == [had |-> TRUE, board |-> b]

InitStore ==
    /\ now = stableTime
    /\ ticks = 0
    /\ kind \in {"memory", "gcp"}
    /\ boards = EmptyMap
    /\ bucket = EmptyMap
    /\ latest = EmptyMap
    /\ inflight = [h \in Handlers |-> Idle]
    /\ last = [op |-> "init"]
    /\ miner = NoMiner
    /\ shadow = EmptyMap
    /\ reaper = NoReaper

\* otherPublicKey is never Put.
StoreKeys == {samplePublicKey, otherPublicKey}

\* How a Put can fail; the memory store's Put cannot.
PutFaults == {"none", "unwritten", "written"}

StoreGet ==
    \E key \in StoreKeys, readFails \in BOOLEAN :
        \E r \in {BoardStoreGet(kind, boards, bucket, key, now, readFails)} :
            /\ boards' = r.boards
            /\ last' = [op |-> "get", key |-> key, res |-> r.res,
                        cache |-> Entry(boards, key), object |-> Entry(bucket, key)]
            /\ UNCHANGED <<now, ticks, kind, bucket, latest, inflight, miner, shadow, reaper>>

\* The history after a Put of board b under key with this outcome.
Record(history, key, b, err, fault) ==
    IF err = "none"
    THEN MapSet(history, key, [put |-> Held(b), landed |-> {}])
    ELSE IF fault = "written"
    THEN MapSet(history, key,
                IF key \in DOMAIN history
                THEN [put |-> history[key].put, landed |-> history[key].landed \cup {b}]
                ELSE [put |-> NoBoard, landed |-> {b}])
    ELSE history

\* The boards that failed Puts left in the bucket since the last Put that
\* succeeded.
Landed(history, key) == IF key \in DOMAIN history THEN history[key].landed ELSE {}

StorePut ==
    \E b \in SeedBoards(samplePublicKey, now), fault \in PutFaults :
        /\ fault = "written" => Cardinality(Landed(latest, samplePublicKey)) < MaxLanded
        /\ \E r \in {BoardStorePut(kind, boards, bucket, samplePublicKey, b, fault)} :
            /\ boards' = r.boards
            /\ bucket' = r.bucket
            /\ latest' = Record(latest, samplePublicKey, b, r.err, fault)
            /\ last' = [op |-> "put", key |-> samplePublicKey, board |-> b, err |-> r.err]
            /\ UNCHANGED <<now, ticks, kind, inflight, miner, shadow, reaper>>

\* The process ends and NewGCPStorageStore starts another on the same bucket,
\* with an empty memory store.
Restart ==
    /\ kind = "gcp"
    /\ boards' = EmptyMap
    /\ last' = [op |-> "restart"]
    /\ UNCHANGED <<now, ticks, kind, bucket, latest, inflight, miner, shadow, reaper>>

NextStore == Tick \/ StoreGet \/ StorePut \/ Reap \/ Restart

SpecStore == InitStore /\ [][NextStore]_vars

(***************************************************************************)
(* ParseKey on its own, on keys and times on and around its limits.        *)
(***************************************************************************)
Suffix(mm, yy) == <<"8", "3", "e", mm[1], mm[2], yy[1], yy[2]>>
KeyOf(c, mm, yy) == Prefix(c) \o Suffix(mm, yy)

KeyInputs ==
    {samplePublicKey,
     KeyOf("e", <<"1", "2">>, <<"2", "4">>),
     KeyOf("e", <<"0", "2">>, <<"2", "4">>),
     KeyOf("e", <<"0", "1">>, <<"0", "0">>),
     KeyOf("e", <<"0", "1">>, <<"2", "5">>),
     KeyOf("e", <<"0", "0">>, <<"2", "4">>),
     KeyOf("e", <<"1", "3">>, <<"2", "4">>),
     KeyOf("e", <<"1", "a">>, <<"2", "4">>),
     KeyOf("e", <<"1", "1">>, <<"2", "a">>),
     KeyOf("E", <<"1", "1">>, <<"2", "4">>),
     KeyOf("g", <<"1", "1">>, <<"2", "4">>),
     Prefix("e") \o <<"8", "3", "f", "1", "1", "2", "4">>,
     Tail(samplePublicKey),
     <<"e">> \o samplePublicKey,
     <<>>}

NowInputs ==
    {stableTime,
     Date(2022, 1, 31, 23, 59, 59), Date(2022, 2, 1, 0, 0, 0),
     Date(2022, 11, 1, 23, 59, 59), Date(2022, 11, 2, 0, 0, 0),
     Date(2023, 1, 1, 0, 0, 0),
     Date(2024, 2, 29, 23, 59, 59), Date(2024, 3, 1, 0, 0, 0),
     Date(2024, 11, 30, 23, 59, 59), Date(2024, 12, 1, 0, 0, 0),
     Date(2024, 12, 31, 23, 59, 59), Date(2025, 1, 1, 0, 0, 0),
     Date(2099, 12, 31, 23, 59, 59), Date(2100, 1, 1, 0, 0, 0)}

InitKey ==
    /\ now \in NowInputs
    /\ ticks = 0
    /\ kind = "memory"
    /\ boards = EmptyMap
    /\ bucket = EmptyMap
    /\ latest = EmptyMap
    /\ inflight = [h \in Handlers |-> Idle]
    /\ last = [op |-> "init"]
    /\ miner = NoMiner
    /\ shadow = EmptyMap
    /\ reaper = NoReaper

ParseKeyCall ==
    \E key \in KeyInputs :
        /\ last' = [op |-> "ParseKey", key |-> key, res |-> ParseKey(key, now)]
        /\ UNCHANGED <<now, ticks, kind, boards, bucket, latest, inflight, miner, shadow, reaper>>

NextKey == ParseKeyCall

SpecKey == InitKey /\ [][NextKey]_vars

(***************************************************************************)
(* Properties of PUT /{key}                                                *)
(***************************************************************************)

\* The timestamp a body carries in its first <time> tag.
TimestampOf(content) == FindTimestamp(content).tag.t

\* The last operation was a PUT that the server answered with 200.
AcceptedPut == last.op = "PUT" /\ last.resp.status = 200

\* The last operation was a PUT that passes every check before the
\* timestamp checks: a valid key that is not denied, a body within the size
\* limit that carries a parsable timestamp, a signature of that body by the key.
WellFormedPut ==
    /\ last.op = "PUT"
    /\ last.key = samplePublicKey
    /\ last.content.size <= MaxContentSize
    /\ Len(last.content.tags) > 0
    /\ last.content.tags[1].ok
    /\ last.sig = SignHex(last.key, last.content)

\* The timestamp of the last PUT's body is within the accepted window.
InWindow ==
    /\ TimestampOf(last.content) >= now - 22 * 24 * 3600 - 300
    /\ TimestampOf(last.content) <= now + 300

\* Board b is not expired at time t.
Fresh(b, t) == t <= b.Timestamp + MaxContentAge

\* The store held a fresh board for the key of the last operation when that
\* operation began.
PrevFresh == last.prev.had /\ Fresh(last.prev.board, now)

\* C1: right after a PUT is accepted the store holds, for its key, the board
\* made of the request's body, signature and timestamp, and Get returns it.
C1_AcceptedPutIsStored ==
    AcceptedPut =>
        /\ last.key \in DOMAIN boards
        /\ boards[last.key] = [Content |-> last.content, Signature |-> last.sig,
                               Timestamp |-> TimestampOf(last.content)]

\* C2: every accepted PUT carried a Spring-Signature header that hex-decodes
\* to exactly 64 bytes which are a signature of the exact body by the key of
\* the path.
C2_AcceptedPutIsSigned ==
    AcceptedPut =>
        /\ HexDecode(last.sig).ok
        /\ HexDecode(last.sig).bytes.len = 64
        /\ HexDecode(last.sig).bytes.signer = last.key
        /\ HexDecode(last.sig).bytes.msg = last.content

\* An accepted PUT, whose signature is the key's signature of its body.
C2_Witness == AcceptedPut /\ last.sig = SignHex(last.key, last.content)

\* C3: an accepted PUT has now - 22d - 5min <= ts <= now + 5min; a PUT that
\* passes the earlier checks is answered 400 "in the future" when
\* ts - 5min > now, 400 "too old" when ts + 5min < now - 22d, and is not
\* turned away for its timestamp's age on the two bounds or between them.
C3_TimestampWindow ==
    /\ AcceptedPut =>
           /\ TimestampOf(last.content) >= now - 22 * 24 * 3600 - 300
           /\ TimestampOf(last.content) <= now + 300
    /\ WellFormedPut /\ TimestampOf(last.content) - 300 > now =>
           last.resp = [status |-> 400, body |-> "ErrMessageTimestampInFuture"]
    /\ WellFormedPut /\ TimestampOf(last.content) + 300 < now - 22 * 24 * 3600 =>
           last.resp = [status |-> 400, body |-> "ErrMessageTimestampTooOld"]
    /\ WellFormedPut /\ InWindow => last.resp.status \in {200, 409}

\* A PUT accepted with its timestamp on the upper bound, now + 5min, after
\* the clock has moved.
C3_Witness ==
    AcceptedPut /\ TimestampOf(last.content) = now + 300 /\ ticks > 0

\* C4: when the store holds a fresh board with timestamp T for the key, a
\* PUT that passes the earlier checks with a timestamp before T is answered
\* 409 and the store is left as it was.
C4_OlderPutConflicts ==
    [][(/\ WellFormedPut'
        /\ InWindow'
        /\ PrevFresh'
        /\ TimestampOf(last'.content) < last'.prev.board.Timestamp)
       => /\ last'.resp = [status |-> 409,
                           body |-> "ErrMessageTimestampOlderThanCurrent"]
          /\ boards' = boards
          /\ bucket' = bucket]_vars

\* A PUT older than the fresh stored board was answered 409.
C4_Witness ==
    /\ WellFormedPut
    /\ InWindow
    /\ PrevFresh
    /\ TimestampOf(last.content) < last.prev.board.Timestamp
    /\ last.resp.status = 409
    /\ boards[last.key] = last.prev.board

\* C5 as stated: with a fresh board of timestamp T stored for the key, a PUT
\* is accepted only if its timestamp is strictly later than T.
C5_AcceptedOnlyStrictlyNewer ==
    AcceptedPut /\ PrevFresh =>
        TimestampOf(last.content) > last.prev.board.Timestamp

\* C5, amended: with a fresh board of timestamp T stored for the key, a PUT
\* is accepted only if its timestamp is T or later; one equal to T is accepted.
C5_AcceptedOnlyNotOlder ==
    /\ AcceptedPut /\ PrevFresh =>
           TimestampOf(last.content) >= last.prev.board.Timestamp
    /\ WellFormedPut /\ PrevFresh
          /\ TimestampOf(last.content) = last.prev.board.Timestamp =>
           last.resp.status = 200

\* A PUT was accepted whose timestamp equals that of the fresh stored board.
C5_Witness ==
    /\ AcceptedPut
    /\ PrevFresh
    /\ TimestampOf(last.content) = last.prev.board.Timestamp

BothCompleted ==
    \A h \in Handlers :
        inflight[h].pc = "done" /\ inflight[h].resp.status \in {200, 409}

\* The board a request asks the server to store.
BoardOf(req) ==
    [Content |-> req.content, Signature |-> req.sig,
     Timestamp |-> TimestampOf(req.content)]

\* C7: when two validly signed PUTs for the same key with different
\* timestamps have been handled concurrently and both have completed, the
\* store holds for the key the board of the one with the larger timestamp.
C7_LargerTimestampWins ==
    /\ BothCompleted
    /\ inflight[1].req.key = inflight[2].req.key
    /\ TimestampOf(inflight[1].req.content) # TimestampOf(inflight[2].req.content)
    => \E h \in Handlers :
           /\ \A g \in Handlers :
                  TimestampOf(inflight[g].req.content)
                      <= TimestampOf(inflight[h].req.content)
           /\ inflight[h].req.key \in DOMAIN boards
           /\ boards[inflight[h].req.key] = BoardOf(inflight[h].req)

(***************************************************************************)
(* Properties of the board stores                                          *)
(***************************************************************************)
\* C8: Get of either store never returns a board with now > timestamp + 22
\* days; it returns NotFound when every board held for the key, in the cache
\* or in the bucket, is that old, reaped or not; and at now = timestamp + 22
\* days exactly it still returns the board.
C8_GetHidesExpired ==
    last.op = "get" =>
        /\ last.res.err = "none" =>
               now <= last.res.board.Timestamp + 22 * 24 * 3600
        /\ /\ last.res.err # "io"
           /\ last.cache.had => now > last.cache.board.Timestamp + 22 * 24 * 3600
           /\ last.object.had => now > last.object.board.timestamp + 22 * 24 * 3600
           => last.res = [err |-> "ErrKeyNotFound"]
        /\ last.cache.had /\ now = last.cache.board.Timestamp + 22 * 24 * 3600 =>
               last.res = [err |-> "none", board |-> last.cache.board]
        /\ /\ last.res.err # "io"
           /\ ~last.cache.had
           /\ last.object.had
           /\ now = last.object.board.timestamp + 22 * 24 * 3600
           => /\ last.res.err = "none"
              /\ last.res.board.Content = last.object.board.content
              /\ last.res.board.Signature = last.object.board.signature
              /\ last.res.board.Timestamp = last.object.board.timestamp

\* The GCP store, its cache empty, answered NotFound for a board in the
\* bucket that expired a second ago.
C8_Witness ==
    /\ kind = "gcp"
    /\ last.op = "get"
    /\ ~last.cache.had
    /\ last.object.had
    /\ now = last.object.board.timestamp + 22 * 24 * 3600 + 1
    /\ last.res = [err |-> "ErrKeyNotFound"]

\* C9: Get of a key never Put returns NotFound; a board that Get returns is
\* the board of the last Put that succeeded under the key, or of a Put since;
\* and after a Put that succeeded, with no failed Put since, Get returns that
\* board unchanged while it is fresh and NotFound once it has expired.
C9_GetReturnsWhatWasPut ==
    last.op = "get" /\ last.res.err # "io" =>
        /\ last.key \notin DOMAIN latest => last.res = [err |-> "ErrKeyNotFound"]
        /\ last.res.err = "none" =>
               /\ last.key \in DOMAIN latest
               /\ \/ latest[last.key].put = [had |-> TRUE, board |-> last.res.board]
                  \/ last.res.board \in latest[last.key].landed
        /\ /\ last.key \in DOMAIN latest
           /\ latest[last.key].put.had
           /\ latest[last.key].landed = {}
           => last.res = IF now <= latest[last.key].put.board.Timestamp + 22 * 24 * 3600
                         THEN [err |-> "none", board |-> latest[last.key].put.board]
                         ELSE [err |-> "ErrKeyNotFound"]

\* The GCP store, its cache empty, returned from the bucket the board of the
\* last Put, unchanged, after the clock had moved.
C9_Witness ==
    /\ kind = "gcp"
    /\ last.op = "get"
    /\ ~last.cache.had
    /\ last.res.err = "none"
    /\ last.key \in DOMAIN latest
    /\ latest[last.key].put = [had |-> TRUE, board |-> last.res.board]
    /\ ticks > 0

(***************************************************************************)
(* Properties of ParseKey                                                  *)
(***************************************************************************)
\* The key format: 64 lowercase hex characters ending in 83e, MM, YY with MM
\* in 01..12.
WellFormedKey(key) ==
    /\ Len(key) = 64
    /\ \A i \in 1..64 :
           key[i] \in {"0", "1", "2", "3", "4", "5", "6", "7", "8", "9",
                       "a", "b", "c", "d", "e", "f"}
    /\ key[58] = "8" /\ key[59] = "3" /\ key[60] = "e"
    /\ \A i \in 61..64 : key[i] \in {"0", "1", "2", "3", "4", "5", "6", "7", "8", "9"}
    /\ 10 * DigitVal(key[61]) + DigitVal(key[62]) \in 1..12

ExpiryMM(key) == 10 * DigitVal(key[61]) + DigitVal(key[62])
ExpiryYear(key, t) == 10 * DigitVal(key[63]) + DigitVal(key[64]) + (YearOf(t) - (YearOf(t) % 100))

\* The last second of the key's expiry month.
ExpiresAt(key, t) ==
    IF ExpiryMM(key) = 12
    THEN Date(ExpiryYear(key, t) + 1, 1, 1, 0, 0, 0) - 1
    ELSE Date(ExpiryYear(key, t), ExpiryMM(key) + 1, 1, 0, 0, 0) - 1

\* 730 days before the first second of the key's expiry month.
ValidAt(key, t) ==
    Date(ExpiryYear(key, t), ExpiryMM(key), 1, 0, 0, 0) - 730 * 24 * 3600

\* What the validity window says of a key at time t.
Verdict(key, t) ==
    IF ~WellFormedKey(key) THEN "KeyInvalid"
    ELSE IF t > ExpiresAt(key, t) THEN "KeyExpired"
    ELSE IF t < ValidAt(key, t) THEN "KeyNotYetValid"
    ELSE "none"

\* C10: ParseKey(key, now) succeeds exactly when the key is well formed and
\* validAt <= now <= expiresAt; otherwise it returns Invalid when the format
\* fails, else Expired when now > expiresAt, else NotYetValid.
C10_ParseKeyWindow ==
    last.op = "ParseKey" =>
        /\ last.res.err = Verdict(last.key, now)
        /\ last.res.err = "none" => last.res.PublicKey = last.key
        /\ last.res.err = "none" <=>
               /\ WellFormedKey(last.key)
               /\ now <= ExpiresAt(last.key, now)
               /\ ValidAt(last.key, now) <= now

\* The sample key parsed with success in the first second of its validity,
\* 2022-11-02T00:00:00Z, 730 days before 2024-11-01.
C10_Witness ==
    /\ last.op = "ParseKey"
    /\ last.key = samplePublicKey
    /\ now = Date(2022, 11, 2, 0, 0, 0)
    /\ now = ValidAt(last.key, now)
    /\ last.res.err = "none"

(***************************************************************************)
(* The access checks of GET and PUT: keys that fail ParseKey in each way,  *)
(* the denied key and the test key, on either store, with store I/O and    *)
(* body reads that can fail.                                               *)
(***************************************************************************)
MaxAccessTicks == 1

\* The keys of the tests' KeyInvalid, KeyExpired and KeyNotYetValid cases.
TestPrivateKey == Prefix("3") \o <<"d", "2", "2", "4", "4", "1", "9">>
expiredKey == Prefix("b") \o <<"8", "3", "e", "0", "5", "1", "9">>
notYetValidKey == Prefix("b") \o <<"8", "3", "e", "0", "5", "2", "5">>

AccessKeys ==
    {TestPublicKey, samplePublicKey, InfernalPublicKey,
     expiredKey, notYetValidKey, TestPrivateKey}

\* The clock of the tests, and a time after the infernal key has expired.
AccessTimes == {stableTime, Date(2023, 3, 1, 0, 0, 0)}

\* The clock advances by a second, or past the maximum content age.
AccessTickDeltas == {1 * Second, MaxContentAge + 1 * Second}

\* If-Modified-Since: absent, unparsable, and dates next to the clock.
AccessIfModifiedSince(t) ==
    {NoHeader, BadDate, HTTPDate(t - 1), HTTPDate(t), HTTPDate(t + 1)}

\* GETs: every If-Modified-Since for the sample key, and the header absent,
\* unparsable or set for the other keys.
AccessGets(t) ==
    {[key |-> samplePublicKey, ims |-> h] : h \in AccessIfModifiedSince(t)}
        \cup {[key |-> k, ims |-> h] :
                 k \in AccessKeys \ {samplePublicKey},
                 h \in {NoHeader, BadDate, HTTPDate(t)}}

\* PUTs for a key: signed and well formed, unreadable, and too large; for the
\* sample key also signed, well formed and a second older than the clock.
AccessPuts(key, t) ==
    {Signed(key, Body(t)),
     [key |-> key, content |-> Unreadable, sig |-> EmptyHeader],
     Signed(key, Content(MaxContentSize + 1, <<Tag(t)>>, "long"))}
        \cup (IF key = samplePublicKey THEN {Signed(key, Body(t - 1))} ELSE {})

\* Whether the store's I/O can fail: the memory store does none.
IOFaults(storeKind) == IF storeKind = "memory" THEN {FALSE} ELSE BOOLEAN

\* The store as a request finds it.
StoreAt(cache, objects) == [boards |-> cache, bucket |-> objects]

InitAccess ==
    /\ now \in AccessTimes
    /\ ticks = 0
    /\ kind \in {"memory", "gcp"}
    /\ boards = EmptyMap
    /\ bucket = EmptyMap
    /\ latest = EmptyMap
    /\ inflight = [h \in Handlers |-> Idle]
    /\ last = [op |-> "init"]
    /\ miner = NoMiner
    /\ shadow = EmptyMap
    /\ reaper = NoReaper

AccessTick ==
    /\ ticks < MaxAccessTicks
    /\ \E d \in AccessTickDeltas : now' = now + d
    /\ ticks' = ticks + 1
    /\ last' = [op |-> "tick"]
    /\ UNCHANGED <<kind, boards, bucket, latest, inflight, miner, shadow, reaper>>

\* GET /{key}, with a store whose I/O may fail.
AccessGet ==
    \E req \in AccessGets(now), quote \in getRandomQuote, ioFails \in IOFaults(kind) :
        \E r \in {handleGetKey(kind, boards, bucket, req.key, req.ims, now, quote, ioFails)} :
            /\ boards' = r.boards
            /\ bucket' = r.bucket
            /\ last' = [op |-> "GET", key |-> req.key, ims |-> req.ims, io |-> ioFails,
                        quote |-> quote, resp |-> r.resp,
                        before |-> StoreAt(boards, bucket)]
            /\ UNCHANGED <<now, ticks, kind, latest, inflight, miner, shadow, reaper>>

\* PUT /{key}, with a store whose I/O may fail.
AccessPut ==
    \E key \in AccessKeys, ioFails \in IOFaults(kind) :
        \E req \in AccessPuts(key, now) :
            \E pre \in {PutKeyChecks(req.key, req.content, req.sig, now)} :
                \E r \in {IF pre.ok
                           THEN PutKeyFinish(kind, boards, bucket, req.key, req.content,
                                             req.sig, pre.timestamp, now, ioFails)
                           ELSE PutKeyRejected(boards, bucket, pre.resp)} :
                    /\ boards' = r.boards
                    /\ bucket' = r.bucket
                    /\ last' = [op |-> "PUT", key |-> req.key, content |-> req.content,
                                sig |-> req.sig, io |-> ioFails, resp |-> r.resp,
                                before |-> StoreAt(boards, bucket)]
                    /\ UNCHANGED <<now, ticks, kind, latest, inflight, miner, shadow, reaper>>

\* The owner of the store puts a board for the sample key into it.
AccessSeed ==
    \E b \in SeedBoards(samplePublicKey, now) :
        \E r \in {BoardStorePut(kind, boards, bucket, samplePublicKey, b, "none")} :
            /\ boards' = r.boards
            /\ bucket' = r.bucket
            /\ last' = [op |-> "seed", key |-> samplePublicKey, board |-> b]
            /\ UNCHANGED <<now, ticks, kind, latest, inflight, miner, shadow, reaper>>

NextAccess == AccessTick \/ AccessGet \/ AccessPut \/ AccessSeed

SpecAccess == InitAccess /\ [][NextAccess]_vars

(***************************************************************************)
(* Properties of the access checks.                                        *)
(***************************************************************************)
\* The last operation was a GET or a PUT.
IsRequest == last.op \in {"GET", "PUT"}

\* The last request left the cache and the bucket as it found them.
StoreUntouched == StoreAt(boards, bucket) = last.before

\* The message the key named in the last request fails ParseKey with.
KeyFailureMessage ==
    CASE ParseKey(last.key, now).err = "KeyInvalid"     -> ErrMessageKeyInvalid
      [] ParseKey(last.key, now).err = "KeyExpired"     -> ErrMessageKeyExpired
      [] ParseKey(last.key, now).err = "KeyNotYetValid" -> ErrMessageKeyNotYetValid

\* C11: a GET or PUT for a key other than the test key that fails ParseKey is
\* answered 403 with the message of that failure, the three messages differ
\* from each other, and the answer is the same and the store is left as it
\* was whether or not the key is denied, the store's I/O fails or the body
\* can be read.
C11_KeyFailureIs403 ==
    /\ ErrMessageKeyInvalid # ErrMessageKeyExpired
    /\ ErrMessageKeyInvalid # ErrMessageKeyNotYetValid
    /\ ErrMessageKeyExpired # ErrMessageKeyNotYetValid
    /\ (IsRequest /\ last.key # TestPublicKey /\ ParseKey(last.key, now).err # "none")
         => /\ last.resp.status = 403
            /\ last.resp.body = KeyFailureMessage
            /\ StoreUntouched

\* A PUT with an unreadable body for the denied key, expired, on a store
\* whose I/O fails, is answered with the message for an expired key.
C11_Witness ==
    /\ last.op = "PUT"
    /\ last.key = InfernalPublicKey
    /\ Contains(last.key)
    /\ ParseKey(last.key, now).err = "KeyExpired"
    /\ last.content = Unreadable
    /\ last.io
    /\ last.resp = NewServerError(403, ErrMessageKeyExpired)

\* C12: the deny list holds the infernal key, and a GET or PUT for a denied
\* key is answered 403, with the denied-key message when the key passes
\* ParseKey, and leaves the store as it was, even when the store's I/O would
\* fail or the body cannot be read.
C12_DeniedKeyIs403 ==
    /\ InfernalPublicKey \in baseDenyList
    /\ Contains(InfernalPublicKey)
    /\ (IsRequest /\ last.key \in baseDenyList /\ last.key # TestPublicKey)
         => /\ last.resp.status = 403
            /\ ParseKey(last.key, now).err = "none" => last.resp.body = ErrMessageDeniedKey
            /\ StoreUntouched

\* A GET for the infernal key while it is valid, on a store whose I/O fails,
\* is answered with the denied-key message.
C12_Witness ==
    /\ last.op = "GET"
    /\ last.key = InfernalPublicKey
    /\ ParseKey(last.key, now).err = "none"
    /\ last.io
    /\ last.resp = NewServerError(403, ErrMessageDeniedKey)

\* C13: a PUT for the test key is answered 401 with the test-key message,
\* whatever its body and signature, the time and the store hold, and it
\* leaves the store as it was.
C13_TestKeyPutIs401 ==
    (last.op = "PUT" /\ last.key = TestPublicKey)
        => /\ last.resp.status = 401
           /\ last.resp.body = ErrMessageTestKey
           /\ StoreUntouched

\* A correctly signed, well-formed PUT for the test key, with a board of the
\* test key in the store, is answered 401.
C13_Witness ==
    /\ last.op = "PUT"
    /\ last.key = TestPublicKey
    /\ last.sig = SignHex(TestPublicKey, last.content)
    /\ last.content = Body(now)
    /\ TestPublicKey \in DOMAIN boards
    /\ last.resp = NewServerError(401, ErrMessageTestKey)

\* The board a 200 response carries.
BoardIn(resp) ==
    [Content |-> resp.body, Signature |-> resp.SpringSignature,
     Timestamp |-> resp.LastModified]

\* The last request was a GET of the test key whose Put did not fail.
TestKeyGetStored ==
    /\ last.op = "GET"
    /\ last.key = TestPublicKey
    /\ ~(kind = "gcp" /\ last.io)

\* C14: a GET of the test key whose store write succeeds is answered 200,
\* although ParseKey would refuse the key, with a signature that verifies for
\* the body under the test key, Last-Modified at the server's clock and
\* version 83, and the board answered is the one now in the store under the
\* test key.
C14_TestKeyGet ==
    TestKeyGetStored
        => /\ last.resp.status = 200
           /\ last.resp.body \in getRandomQuote
           /\ HexDecode(last.resp.SpringSignature).ok
           /\ Verify(TestPublicKey, last.resp.body,
                     HexDecode(last.resp.SpringSignature).bytes)
           /\ last.resp.LastModified = now
           /\ last.resp.SpringVersion = "83"
           /\ TestPublicKey \in DOMAIN boards
           /\ boards[TestPublicKey] = BoardIn(last.resp)
           /\ kind = "gcp" =>
                /\ TestPublicKey \in DOMAIN bucket
                /\ ToBoard(bucket[TestPublicKey]) = BoardIn(last.resp)

\* A GET of the test key, which ParseKey refuses at this time, replaces an
\* older board of the test key in the GCP store and is answered 200.
C14_Witness ==
    /\ TestKeyGetStored
    /\ kind = "gcp"
    /\ ParseKey(TestPublicKey, now).err # "none"
    /\ TestPublicKey \in DOMAIN last.before.bucket
    /\ last.before.bucket[TestPublicKey].timestamp < now
    /\ last.resp.status = 200
    /\ bucket[TestPublicKey].timestamp = now

\* The last request was a GET, on a store whose I/O works, for a key that
\* passes ParseKey and is not denied.
GetOfAdmittedKey ==
    /\ last.op = "GET"
    /\ last.key # TestPublicKey
    /\ ParseKey(last.key, now).err = "none"
    /\ last.key \notin baseDenyList
    /\ ~last.io

\* The board the store held for the key of the last request.
HeldBefore == Entry(last.before.boards, last.key)

\* The response to the last GET had no board ever been stored.
NeverStoredResponse ==
    handleGetKey(kind, EmptyMap, EmptyMap, last.key, last.ims, now, last.quote, FALSE).resp

\* C15: the GET response for a key whose stored board is a <time> tag only
\* is 404 and equal, body included, to the response to the same request on a
\* store that never held a board, for every If-Modified-Since value.
C15_TimestampOnlyLooksAbsent ==
    (/\ GetOfAdmittedKey
     /\ HeldBefore.had
     /\ isTimestampOnly(HeldBefore.board.Content))
        => /\ last.resp.status = 404
           /\ NeverStoredResponse.status = 404
           /\ last.resp = NeverStoredResponse

\* A GET with an unparsable If-Modified-Since for a key whose stored board is
\* fresh and a <time> tag only is answered 404.
C15_Witness ==
    /\ GetOfAdmittedKey
    /\ HeldBefore.had
    /\ isTimestampOnly(HeldBefore.board.Content)
    /\ ~After(now, Add(HeldBefore.board.Timestamp, MaxContentAge))
    /\ last.ims = BadDate
    /\ last.resp = BoardNotFound(last.key)

\* The last request was a GET for an admitted key whose stored board is fresh
\* and more than a <time> tag.
GetOfShownBoard ==
    /\ GetOfAdmittedKey
    /\ HeldBefore.had
    /\ ~After(now, Add(HeldBefore.board.Timestamp, MaxContentAge))
    /\ ~isTimestampOnly(HeldBefore.board.Content)

\* C16: for an admitted key with a fresh board that is more than a <time>
\* tag, a GET without If-Modified-Since or with one not after the board's
\* timestamp is answered 200 with the stored content, timestamp and signature
\* and version 83; one with a later If-Modified-Since is answered with the
\* not-found 404; one with an unparsable If-Modified-Since is answered 400.
C16_GetShowsBoard ==
    GetOfShownBoard
        => CASE last.ims.kind = "bad" -> last.resp.status = 400
             [] last.ims.kind = "date" /\ last.ims.t > HeldBefore.board.Timestamp ->
                    /\ last.resp.status = 404
                    /\ last.resp = BoardNotFound(last.key)
             [] OTHER ->
                    /\ last.resp.status = 200
                    /\ last.resp.body = HeldBefore.board.Content
                    /\ last.resp.LastModified = HeldBefore.board.Timestamp
                    /\ last.resp.SpringSignature = HeldBefore.board.Signature
                    /\ last.resp.SpringVersion = "83"

\* A GET whose If-Modified-Since equals the timestamp of the stored board
\* is answered 200.
C16_Witness ==
    /\ GetOfShownBoard
    /\ last.ims = HTTPDate(HeldBefore.board.Timestamp)
    /\ last.resp.status = 200
    /\ last.resp.body = HeldBefore.board.Content

(***************************************************************************)
(* nskeygen: generateConformingKeyWithSuffix.  Keys are short: a seed of   *)
(* two bytes and a public key of two bytes, a private key being the seed   *)
(* followed by the public key, as an ed25519.PrivateKey is.                *)
(***************************************************************************)
NumCPU == 2
MaxAttempts == 2

\* The value of a hex digit, in either case, as hex.DecodeString reads it.
fromHexChar(c) ==
    CASE c \in Digits -> DigitVal(c)
      [] c \in {"a", "A"} -> 10 [] c \in {"b", "B"} -> 11 [] c \in {"c", "C"} -> 12
      [] c \in {"d", "D"} -> 13 [] c \in {"e", "E"} -> 14 [] c \in {"f", "F"} -> 15

\* hex.DecodeString of a string of hex digits of even length.
DecodeString(str) ==
    [i \in 1..(Len(str) \div 2) |->
        16 * fromHexChar(str[2 * i - 1]) + fromHexChar(str[2 * i])]

\* hex.EncodeToString: two lower-case digits a byte.
hextable ==
    <<"0", "1", "2", "3", "4", "5", "6", "7",
      "8", "9", "a", "b", "c", "d", "e", "f">>
EncodeToString(bytes) ==
    [i \in 1..(2 * Len(bytes)) |->
        IF i % 2 = 1
        THEN hextable[(bytes[(i + 1) \div 2] \div 16) + 1]
        ELSE hextable[(bytes[i \div 2] % 16) + 1]]

\* hexBytes: the bytes of the suffix, an odd one padded with a zero in front.
hexBytes(str) ==
    IF Len(str) % 2 = 1
    THEN [bytes |-> DecodeString(<<"0">> \o str), oddChars |-> TRUE]
    ELSE [bytes |-> DecodeString(str), oddChars |-> FALSE]

\* A variant of suffixBytesEqual: the half byte at the boundary is not
\* compared.
suffixBytesEqualWithoutBoundary(b, suffix, oddChars) ==
    IF Len(suffix) < 1 THEN TRUE
    ELSE IF oddChars
    THEN SubSeq(b, Len(b) - Len(suffix) + 2, Len(b)) = Tail(suffix)
    ELSE SubSeq(b, Len(b) - Len(suffix) + 1, Len(b)) = suffix

\* A variant of suffixBytesEqual: the whole byte at the boundary is compared.
suffixBytesEqualWholeBoundary(b, suffix, oddChars) ==
    IF Len(suffix) < 1 THEN TRUE
    ELSE SubSeq(b, Len(b) - Len(suffix) + 1, Len(b)) = suffix

\* suffixBytesEqual
suffixBytesEqual(b, suffix, oddChars) ==
    IF Len(suffix) < 1 THEN TRUE
    ELSE IF oddChars
    THEN /\ b[Len(b) - Len(suffix) + 1] % 16 = suffix[1] % 16
         /\ SubSeq(b, Len(b) - Len(suffix) + 2, Len(b)) = Tail(suffix)
    ELSE SubSeq(b, Len(b) - Len(suffix) + 1, Len(b)) = suffix

\* The seeds rand.Reader can give.
Seeds == {<<0, 10>>, <<160, 10>>, <<10, 170>>, <<170, 170>>}

\* The public key of a seed: here, the seed's bytes in the other order.
PublicOf(seed) == <<seed[2], seed[1]>>

\* ed25519.GenerateKey: the private key is the seed followed by the public
\* key.
GenerateKey(seed) ==
    [publicKey |-> PublicOf(seed), privateKey |-> seed \o PublicOf(seed)]

\* ed25519KeyPair{privateKey, publicKey}
ed25519KeyPair(privateKey, publicKey) ==
    [PrivateKey |-> privateKey, PublicKey |-> publicKey]

\* PrivateKey.Seed() and PrivateKey.Public()
SeedOf(privateKey) == SubSeq(privateKey, 1, 2)
PublicPart(privateKey) == SubSeq(privateKey, 3, 4)

PublicKeyHex(kp) == EncodeToString(kp.PublicKey)

\* strings.HasSuffix
HasSuffix(str, suffix) ==
    /\ Len(suffix) <= Len(str)
    /\ SubSeq(str, Len(str) - Len(suffix) + 1, Len(str)) = suffix

\* The suffixes asked for: none, odd and even lengths.
TargetSuffixes ==
    {<<>>, <<"a">>, <<"a", "a">>, <<"a", "a", "a">>, <<"0", "a">>, <<"a", "0", "a">>}

Workers == 1..NumCPU

\* The capacity of conformingKeyChan.
ChanCapacityOneLess == NumCPU - 1
ChanCapacity == NumCPU

\* A worker at the top of its loop.
AtLoad(n) == [pc |-> "load", numIterations |-> n]

InitMiner ==
    /\ now = stableTime
    /\ ticks = 0
    /\ kind = "memory"
    /\ boards = EmptyMap
    /\ bucket = EmptyMap
    /\ latest = EmptyMap
    /\ inflight = [h \in Handlers |-> Idle]
    /\ last = [op |-> "init"]
    /\ shadow = EmptyMap
    /\ reaper = NoReaper
    /\ \E targetSuffix \in TargetSuffixes :
           miner = [pc |-> "wait", targetSuffix |-> targetSuffix,
                    conformingKeyChan |-> <<>>, done |-> FALSE,
                    totalIterations |-> 0, attempts |-> 0, sent |-> [w \in Workers |-> 0],
                    workers |-> [w \in Workers |-> AtLoad(0)],
                    err |-> FALSE, keyPair |-> ed25519KeyPair(<<>>, <<>>)]

\* A variant of WorkerLoad: a worker returns without adding its count.
WorkerLoadWithoutAdd ==
    \E w \in Workers :
        /\ miner.pc = "wait"
        /\ miner.workers[w].pc = "load"
        /\ miner' =
             IF miner.done
             THEN [miner EXCEPT !.workers[w] = [pc |-> "returned", err |-> FALSE]]
             ELSE [miner EXCEPT !.workers[w].pc = "generate"]
        /\ UNCHANGED <<now, ticks, kind, boards, bucket, latest, inflight, last, shadow, reaper>>

\* if done.Load() { atomic.AddInt64(&totalIterations, ...); return nil }
WorkerLoad ==
    \E w \in Workers :
        /\ miner.pc = "wait"
        /\ miner.workers[w].pc = "load"
        /\ miner' =
             IF miner.done
             THEN [miner EXCEPT
                      !.totalIterations = @ + miner.workers[w].numIterations,
                      !.workers[w] = [pc |-> "returned", err |-> FALSE]]
             ELSE [miner EXCEPT !.workers[w].pc = "generate"]
        /\ UNCHANGED <<now, ticks, kind, boards, bucket, latest, inflight, last, shadow, reaper>>

\* ed25519.GenerateKey and suffixBytesEqual: a key that does not match sends
\* the worker round the loop, one that matches is about to be sent.
WorkerGenerate ==
    \E w \in Workers, seed \in Seeds :
        /\ miner.pc = "wait"
        /\ miner.workers[w].pc = "generate"
        /\ \E key \in {GenerateKey(seed)}, target \in {hexBytes(miner.targetSuffix)} :
             IF suffixBytesEqual(key.privateKey, target.bytes, target.oddChars)
             THEN miner' = [miner EXCEPT
                      !.workers[w] =
                          [pc |-> "send", numIterations |-> miner.workers[w].numIterations,
                           keyPair |-> ed25519KeyPair(key.privateKey, key.publicKey)]]
             ELSE /\ miner.attempts < MaxAttempts
                  /\ miner' = [miner EXCEPT
                        !.attempts = @ + 1,
                        !.workers[w] = AtLoad(miner.workers[w].numIterations + 1)]
        /\ UNCHANGED <<now, ticks, kind, boards, bucket, latest, inflight, last, shadow, reaper>>

\* ed25519.GenerateKey returns an error, and the worker with it.
WorkerFail ==
    \E w \in Workers :
        /\ miner.pc = "wait"
        /\ miner.workers[w].pc = "generate"
        /\ miner' = [miner EXCEPT !.workers[w] = [pc |-> "returned", err |-> TRUE]]
        /\ UNCHANGED <<now, ticks, kind, boards, bucket, latest, inflight, last, shadow, reaper>>

\* conformingKeyChan <- &ed25519KeyPair{...}: possible while the buffer has
\* room (nothing receives before every worker has returned).
WorkerSend ==
    \E w \in Workers :
        /\ miner.pc = "wait"
        /\ miner.workers[w].pc = "send"
        /\ Len(miner.conformingKeyChan) < ChanCapacity
        /\ miner' = [miner EXCEPT
               !.conformingKeyChan = Append(@, miner.workers[w].keyPair),
               !.sent[w] = @ + 1,
               !.workers[w] = [pc |-> "store",
                               numIterations |-> miner.workers[w].numIterations]]
        /\ UNCHANGED <<now, ticks, kind, boards, bucket, latest, inflight, last, shadow, reaper>>

\* done.Store(true), and round the loop.
WorkerStore ==
    \E w \in Workers :
        /\ miner.pc = "wait"
        /\ miner.workers[w].pc = "store"
        /\ miner' = [miner EXCEPT
               !.done = TRUE,
               !.workers[w] = AtLoad(miner.workers[w].numIterations + 1)]
        /\ UNCHANGED <<now, ticks, kind, boards, bucket, latest, inflight, last, shadow, reaper>>

\* A variant of MinerReturn: the channel is read without waiting for the
\* workers.
MinerReturnWithoutWait ==
    /\ miner.pc = "wait"
    /\ IF \E w \in Workers : miner.workers[w].pc = "returned" /\ miner.workers[w].err
       THEN miner' = [miner EXCEPT !.pc = "returned", !.err = TRUE]
       ELSE /\ miner.conformingKeyChan # <<>>
            /\ miner' = [miner EXCEPT
                   !.pc = "returned", !.err = FALSE,
                   !.keyPair = Head(miner.conformingKeyChan),
                   !.conformingKeyChan = Tail(@)]
    /\ UNCHANGED <<now, ticks, kind, boards, bucket, latest, inflight, last, shadow, reaper>>

\* errGroup.Wait() returns once every worker has; with an error if one had
\* one, and else the first key pair in the channel is received and returned.
MinerReturn ==
    /\ miner.pc = "wait"
    /\ \A w \in Workers : miner.workers[w].pc = "returned"
    /\ IF \E w \in Workers : miner.workers[w].err
       THEN miner' = [miner EXCEPT !.pc = "returned", !.err = TRUE]
       ELSE /\ miner.conformingKeyChan # <<>>
            /\ miner' = [miner EXCEPT
                   !.pc = "returned", !.err = FALSE,
                   !.keyPair = Head(miner.conformingKeyChan),
                   !.conformingKeyChan = Tail(@)]
    /\ UNCHANGED <<now, ticks, kind, boards, bucket, latest, inflight, last, shadow, reaper>>

NextMiner ==
    WorkerLoad \/ WorkerGenerate \/ WorkerFail \/ WorkerSend \/ WorkerStore \/ MinerReturn

SpecMiner == InitMiner /\ [][NextMiner]_vars

(***************************************************************************)
(* Properties of the key generator.                                        *)
(***************************************************************************)
\* generateConformingKeyWithSuffix has returned a key pair.
MinerReturnedKey == miner.pc = "returned" /\ ~miner.err

\* C17: the key pair generateConformingKeyWithSuffix returns has a public
\* key whose hex encoding ends with the suffix asked for, of even or odd
\* length or empty, and a private key whose public part, the one derived
\* from its seed, is that public key.
C17_KeyHasSuffix ==
    MinerReturnedKey
        => /\ HasSuffix(PublicKeyHex(miner.keyPair), miner.targetSuffix)
           /\ PublicPart(miner.keyPair.PrivateKey) = miner.keyPair.PublicKey
           /\ PublicOf(SeedOf(miner.keyPair.PrivateKey)) = miner.keyPair.PublicKey

\* A key pair is returned for a suffix of odd length that some of the
\* public keys do not end with.
C17_Witness ==
    /\ MinerReturnedKey
    /\ miner.targetSuffix = <<"a", "0", "a">>
    /\ miner.attempts > 0
    /\ PublicKeyHex(miner.keyPair) = <<"a", "a", "0", "a">>

\* C18: no worker ever waits to send: a worker about to send finds room in
\* the channel, no worker sends more than one key pair, and the channel
\* never holds more key pairs than there are workers.
C18_SendNeverBlocks ==
    miner.pc # "off"
        => /\ \A w \in Workers : miner.workers[w].pc = "send" =>
                  Len(miner.conformingKeyChan) < ChanCapacity
           /\ \A w \in Workers : miner.sent[w] <= 1
           /\ Len(miner.conformingKeyChan) <= NumCPU

\* Every worker has sent a key pair, the later ones before they saw the
\* flag, and the channel is full.
C18_Witness ==
    /\ miner.pc = "wait"
    /\ \A w \in Workers : miner.sent[w] = 1
    /\ Len(miner.conformingKeyChan) = NumCPU
    /\ miner.done

(***************************************************************************)
(* From a handler's result to the response: Server.wrapEndpoint on an      *)
(* http.ResponseWriter, and the router NewServer builds around it.         *)
(***************************************************************************)
\* An http.ResponseWriter nothing has been written to: its header, the
\* status sent (0: none yet), how often WriteHeader was called, and what was
\* written; with it, the StatusCode of the request's ContextContainer.
NewRecorder ==
    [Header |-> EmptyMap, Code |-> 0, headerCalls |-> 0, Body |-> <<>>,
     StatusCode |-> 0]

\* Header.Set and Header.Add
HeaderSet(w, k, v) == [w EXCEPT !.Header = MapSet(w.Header, k, <<v>>)]
HeaderAdd(w, k, v) ==
    [w EXCEPT !.Header =
        MapSet(w.Header, k, IF k \in DOMAIN w.Header THEN Append(w.Header[k], v) ELSE <<v>>)]

\* for k, vs := range resp.Header { for _, v := range vs { w.Header().Add(k, v) } }
HeaderAddAll(w, header) ==
    [w EXCEPT !.Header =
        [k \in (DOMAIN w.Header) \cup {h \in DOMAIN header : header[h] # <<>>} |->
            (IF k \in DOMAIN w.Header THEN w.Header[k] ELSE <<>>)
                \o (IF k \in DOMAIN header THEN header[k] ELSE <<>>)]]

\* ResponseWriter.WriteHeader: the first status is the one sent.
WriteHeader(w, statusCode) ==
    [w EXCEPT !.Code = IF w.Code = 0 THEN statusCode ELSE @,
              !.headerCalls = @ + 1]

\* ResponseWriter.Write: sends 200 first if no status was sent.
Write(w, b) ==
    [w EXCEPT !.Code = IF w.Code = 0 THEN 200 ELSE @,
              !.Body = Append(@, b)]

\* writeStatus of wrapEndpoint
writeStatus(w, statusCode) ==
    [WriteHeader(w, statusCode) EXCEPT !.StatusCode = statusCode]

\* What a handler returns: a response, a ServerError, a ServerError wrapped
\* in another error, or another error.
ServerResponse(statusCode, body, header) ==
    [kind |-> "ServerResponse", StatusCode |-> statusCode, Body |-> body, Header |-> header]
ServerError(statusCode, message) ==
    [kind |-> "ServerError", StatusCode |-> statusCode, Message |-> message]
Wrapped(text, err) == [kind |-> "wrapped", text |-> text, err |-> err]
OtherError(text) == [kind |-> "error", text |-> text]

\* errors.As(err, &serverErr)
AsServerError(err) ==
    CASE err.kind = "ServerError" -> [ok |-> TRUE, serverErr |-> err]
      [] err.kind = "wrapped" /\ err.err.kind = "ServerError" ->
             [ok |-> TRUE, serverErr |-> err.err]
      [] OTHER -> [ok |-> FALSE]

\* A variant of wrapEndpoint: an error that is no ServerError is answered
\* with its own text.
wrapEndpointWithErrorText(w, result) ==
    CASE result.kind = "ServerResponse" ->
           Write(IF result.StatusCode # 0
                 THEN writeStatus(HeaderAddAll(HeaderSet(w, "Content-Type", "text/html;charset=utf-8"),
                                               result.Header), result.StatusCode)
                 ELSE HeaderAddAll(HeaderSet(w, "Content-Type", "text/html;charset=utf-8"),
                                   result.Header),
                 result.Body)
      [] AsServerError(result).ok ->
           Write(writeStatus(HeaderSet(w, "Content-Type", "text/html;charset=utf-8"),
                             AsServerError(result).serverErr.StatusCode),
                 AsServerError(result).serverErr.Message)
      [] OTHER ->
           Write(writeStatus(HeaderSet(w, "Content-Type", "text/html;charset=utf-8"), 500),
                 result.text)

\* wrapEndpoint: the writer after the handler returned result.
wrapEndpoint(w, result) ==
    CASE result.kind = "ServerResponse" ->
           Write(IF result.StatusCode # 0
                 THEN writeStatus(HeaderAddAll(HeaderSet(w, "Content-Type", "text/html;charset=utf-8"),
                                               result.Header), result.StatusCode)
                 ELSE HeaderAddAll(HeaderSet(w, "Content-Type", "text/html;charset=utf-8"),
                                   result.Header),
                 result.Body)
      [] AsServerError(result).ok ->
           Write(writeStatus(HeaderSet(w, "Content-Type", "text/html;charset=utf-8"),
                             AsServerError(result).serverErr.StatusCode),
                 AsServerError(result).serverErr.Message)
      [] OTHER ->
           Write(writeStatus(HeaderSet(w, "Content-Type", "text/html;charset=utf-8"), 500),
                 ErrMessageInternalError)

\* The headers handlers answer with.
NoHeaders == EmptyMap
VersionHeader == [k \in {"Spring-Version"} |-> <<"83">>]
BoardHeaders ==
    [k \in {"Last-Modified", "Spring-Signature", "Spring-Version"} |->
        CASE k = "Last-Modified" -> <<"Wed, 09 Nov 2022 10:11:12 GMT">>
          [] k = "Spring-Signature" -> <<"a signature">>
          [] OTHER -> <<"83">>]
TwoValues == [k \in {"Vary"} |-> <<"Origin", "Accept">>]

\* Results of handlers: those of the tests, of the handlers, and more.
HandlerResponses ==
    {ServerResponse(c, b, h) :
        c \in {200, 201}, b \in {"a body", "hello", "MessageKeyUpdated"},
        h \in {NoHeaders, VersionHeader, BoardHeaders, TwoValues}}
HandlerServerErrors ==
    {ServerError(c, m) :
        c \in {400, 401, 403, 404, 409, 413},
        m \in {"an error", ErrMessageDeniedKey, ErrMessageTestKey}}
HandlerErrors ==
    {OtherError(t) : t \in {"internal error", "error getting key from store",
                            "error reading request body", "error storing test board"}}
HandlerResults ==
    HandlerResponses \cup HandlerServerErrors
        \cup {Wrapped("error in handler", e) : e \in HandlerServerErrors}
        \cup HandlerErrors
        \cup {Wrapped("error randomizing test board", e) : e \in HandlerErrors}

\* CORSMiddleware.Wrapper
CORSWrapper(w) ==
    HeaderAdd(HeaderAdd(HeaderAdd(HeaderAdd(w,
        "Access-Control-Allow-Methods", "GET, OPTIONS, PUT"),
        "Access-Control-Allow-Origin", "*"),
        "Access-Control-Allow-Headers",
        "Content-Type, If-Modified-Since, Spring-Signature, Spring-Version"),
        "Access-Control-Expose-Headers",
        "Content-Type, Last-Modified, Spring-Signature, Spring-Version")

\* The state of a request's context: ctx.Err().
ContextErrs == {"nil", "Canceled", "DeadlineExceeded"}

\* fmt.Sprintf(ErrMessageCanceled / ErrMessageTimeout, elapsed, timeout)
TimeoutMessage(ctxErr, elapsed) ==
    [message |-> IF ctxErr = "Canceled" THEN "ErrMessageCanceled" ELSE "ErrMessageTimeout",
     elapsed |-> elapsed]

\* A variant of TimeoutWrapper: a canceled context is not answered.
TimeoutWrapperDeadlineOnly(w, ctxErr, elapsed) ==
    IF ctxErr = "DeadlineExceeded"
    THEN Write(WriteHeader(w, 504), TimeoutMessage(ctxErr, elapsed))
    ELSE w

\* TimeoutMiddleware.Wrapper: what its deferred function does to the writer
\* once the handlers under it have returned.
TimeoutWrapper(w, ctxErr, elapsed) ==
    IF ctxErr \in {"Canceled", "DeadlineExceeded"}
    THEN Write(WriteHeader(w, 504), TimeoutMessage(ctxErr, elapsed))
    ELSE w

\* The middlewares NewServer gives its router with router.Use.
routerUse ==
    <<"ContextContainerMiddleware", "CanonicalLogLineMiddleware", "CORSMiddleware">>

\* The handler's result as wrapEndpoint gets it, from the response the
\* handler operators give.
HandlerResultOf(resp) ==
    CASE resp.status = 500 -> OtherError("error from store")
      [] resp.status = 200 /\ "LastModified" \in DOMAIN resp ->
             ServerResponse(200, resp.body,
                 [k \in {"Last-Modified", "Spring-Signature", "Spring-Version"} |->
                     CASE k = "Last-Modified" -> <<HTTPDate(resp.LastModified)>>
                       [] k = "Spring-Signature" -> <<resp.SpringSignature>>
                       [] OTHER -> <<resp.SpringVersion>>])
      [] resp.status = 200 ->
             ServerResponse(200, resp.body, [k \in {"Spring-Version"} |-> <<resp.SpringVersion>>])
      [] OTHER -> ServerError(resp.status, resp.body)

\* The router serving a request whose handler returned result: the
\* middlewares in use around wrapEndpoint.
ServeHTTP(use, result, ctxErr, elapsed) ==
    IF \E n \in DOMAIN use : use[n] = "TimeoutMiddleware"
    THEN TimeoutWrapper(wrapEndpoint(CORSWrapper(NewRecorder), result), ctxErr, elapsed)
    ELSE wrapEndpoint(CORSWrapper(NewRecorder), result)

\* The requests served: GETs, and a signed PUT for the sample key.
RouterRequests(t) ==
    {[method |-> "GET", key |-> k] : k \in {samplePublicKey, TestPublicKey, InfernalPublicKey}}
        \cup {[method |-> "PUT", key |-> samplePublicKey, content |-> Body(t),
               sig |-> SignHex(samplePublicKey, Body(t))]}

\* Whether the handler of the request calls the store and gets the
\* context's error from it: a Put, or a Get that the cache cannot answer.
StoreReturnsContextErr(req, cache, objects, timeNow, ctxErr) ==
    /\ ctxErr # "nil"
    /\ \/ req.method = "GET" /\ req.key = TestPublicKey
       \/ /\ req.key = samplePublicKey
          /\ BoardStoreGet("gcp", cache, objects, req.key, timeNow, TRUE).res.err = "io"

\* The handler of a request, with a store that returns the context's error
\* when the context has one.
Handle(req, cache, objects, timeNow, ctxErr) ==
    IF req.method = "GET"
    THEN handleGetKey("gcp", cache, objects, req.key, NoHeader, timeNow, quotes[1],
                      ctxErr # "nil")
    ELSE IF PutKeyChecks(req.key, req.content, req.sig, timeNow).ok
    THEN PutKeyFinish("gcp", cache, objects, req.key, req.content, req.sig,
                      PutKeyChecks(req.key, req.content, req.sig, timeNow).timestamp,
                      timeNow, ctxErr # "nil")
    ELSE PutKeyRejected(cache, objects, PutKeyChecks(req.key, req.content, req.sig, timeNow).resp)

InitHTTP ==
    /\ now = stableTime
    /\ ticks = 0
    /\ kind = "gcp"
    /\ boards = EmptyMap
    /\ bucket = EmptyMap
    /\ latest = EmptyMap
    /\ inflight = [h \in Handlers |-> Idle]
    /\ last = [op |-> "init"]
    /\ miner = NoMiner
    /\ shadow = EmptyMap
    /\ reaper = NoReaper

\* wrapEndpoint around a handler that returns result.
WrapEndpointCall ==
    \E result \in HandlerResults :
        \E w \in {wrapEndpoint(NewRecorder, result)} :
            /\ last' = [op |-> "wrapEndpoint", result |-> result, w |-> w]
            /\ UNCHANGED <<now, ticks, kind, boards, bucket, latest, inflight, miner, shadow, reaper>>

\* A request served by the router of NewServer, on the GCP store.
RouterServe ==
    \E req \in RouterRequests(now), ctxErr \in ContextErrs, elapsed \in {1 * Second, 2 * Second} :
        \E r \in {Handle(req, boards, bucket, now, ctxErr)} :
            \E w \in {ServeHTTP(routerUse, HandlerResultOf(r.resp), ctxErr, elapsed)} :
                /\ boards' = r.boards
                /\ bucket' = r.bucket
                /\ last' = [op |-> "serve", req |-> req, ctxErr |-> ctxErr,
                            elapsed |-> elapsed, w |-> w,
                            storeErr |-> StoreReturnsContextErr(req, boards, bucket, now, ctxErr)]
                /\ UNCHANGED <<now, ticks, kind, latest, inflight, miner, shadow, reaper>>

NextHTTP == WrapEndpointCall \/ RouterServe \/ AccessSeed

SpecHTTP == InitHTTP /\ [][NextHTTP]_vars

(***************************************************************************)
(* Properties of the responses.                                            *)
(***************************************************************************)
\* C19: wrapEndpoint answers a handler's result once: a ServerError, bare or
\* wrapped, with its status and its message; another error with 500 and the
\* generic message, not the error's text; a ServerResponse with its status,
\* its body and each of its headers.
C19_WrapEndpointResponse ==
    last.op = "wrapEndpoint"
        => /\ last.w.headerCalls = 1
           /\ Len(last.w.Body) = 1
           /\ last.w.StatusCode = last.w.Code
           /\ CASE last.result.kind = "ServerResponse" ->
                     /\ last.w.Code = last.result.StatusCode
                     /\ last.w.Body[1] = last.result.Body
                     /\ \A k \in DOMAIN last.result.Header :
                            /\ k \in DOMAIN last.w.Header
                            /\ last.w.Header[k] = last.result.Header[k]
                [] last.result.kind = "ServerError" ->
                     /\ last.w.Code = last.result.StatusCode
                     /\ last.w.Body[1] = last.result.Message
                [] last.result.kind = "wrapped" /\ last.result.err.kind = "ServerError" ->
                     /\ last.w.Code = last.result.err.StatusCode
                     /\ last.w.Body[1] = last.result.err.Message
                [] last.result.kind = "wrapped" ->
                     /\ last.w.Code = 500
                     /\ last.w.Body[1] = ErrMessageInternalError
                     /\ last.w.Body[1] # last.result.text
                     /\ last.w.Body[1] # last.result.err.text
                [] OTHER ->
                     /\ last.w.Code = 500
                     /\ last.w.Body[1] = ErrMessageInternalError
                     /\ last.w.Body[1] # last.result.text

\* An error that wraps an error of the store is answered 500 with the
\* generic message.
C19_Witness ==
    /\ last.op = "wrapEndpoint"
    /\ last.result = Wrapped("error randomizing test board",
                             OtherError("error storing test board"))
    /\ last.w.Code = 500
    /\ last.w.Body = <<ErrMessageInternalError>>

\* C20: a request served by the router of NewServer whose store operation
\* returned the error of a cancelled or timed-out context is answered 504
\* with a body that names the elapsed time.
C20_CancellationIs504 ==
    (last.op = "serve" /\ last.storeErr)
        => /\ last.w.Code = 504
           /\ \E n \in DOMAIN last.w.Body :
                  last.w.Body[n] = TimeoutMessage(last.ctxErr, last.elapsed)


(***************************************************************************)
(* MemoryStore.ReapLoop and MemoryStore.reap, step by step, next to the    *)
(* Gets and Puts of the store. A second copy of the memory store, shadow,  *)
(* is given the same Gets and Puts and is never swept.                     *)
(***************************************************************************)
\* How many sweeps one call of ReapLoop makes before it is only left to
\* notice the shutdown.
MaxSweeps == 2

\* How often the clock advances while ReapLoop runs.
MaxReapTicks == 2

\* The goroutines that may call ReapLoop on the one store.
Callers == {1, 2}

\* A variant of Expired: a board is swept from timestamp + 22 days on.
ExpiredAtLimit(board, timeNow) ==
    ~Before(timeNow, Add(board.Timestamp, MaxContentAge))

\* reap: now.After(board.Timestamp.Add(nsstore.MaxContentAge))
Expired(board, timeNow) ==
    After(timeNow, Add(board.Timestamp, MaxContentAge))

\* A variant of TryLock: the lock is given to whoever asks.
TryLockUnguarded(mut) == TRUE

\* s.mut.Lock() and s.mut.RLock() go through when no sweep holds the lock
\* (mut is 0, or the caller whose sweep holds it).
TryLock(mut) == mut = 0

\* A variant of selectShutdown: the timer may win over a closed channel.
selectShutdownOrTimer(shutdown) == {"returned", "reap"}

\* select { case <-shutdown: return; case <-time.After(1 * time.Minute): }
\* The timer is created by the select and cannot have fired when the
\* channel is already closed.
selectShutdown(shutdown) == IF shutdown THEN {"returned"} ELSE {"reap"}

\* A call of ReapLoop that has not been made: where it is, how many sweeps it
\* has begun, how many of them with shutdown closed, and the now, the map
\* and the count of the sweep it is in.
NotCalled ==
    [pc |-> "idle", sweeps |-> 0, late |-> 0,
     timeNow |-> 0, before |-> EmptyMap, numReaped |-> 0]

\* The calls that are inside reap, holding the lock.
Sweeping(r) == {c \in Callers : r.calls[c].pc = "sweep"}

\* The boards the store is given, stamped now.
ReapKeys == {samplePublicKey, otherPublicKey}
ReapBoard(key, t) ==
    [Content |-> Body(t), Signature |-> SignHex(key, Body(t)), Timestamp |-> t]

\* The clock advances to the last instant of a board stamped now, or past it.
ReapTickDeltas == {MaxContentAge, MaxContentAge + 1 * Second}

\* How a Put can fail; the memory store's Put cannot.
ReapPutFaults(storeKind) == IF storeKind = "memory" THEN {"none"} ELSE PutFaults

InitReap ==
    /\ now = stableTime
    /\ ticks = 0
    /\ kind \in {"memory", "gcp"}
    /\ boards = EmptyMap
    /\ bucket = EmptyMap
    /\ latest = EmptyMap
    /\ inflight = [h \in Handlers |-> Idle]
    /\ last = [op |-> "init"]
    /\ miner = NoMiner
    /\ shadow = EmptyMap
    /\ reaper = [reapLoopStarted |-> FALSE, shutdown |-> FALSE, mut |-> 0,
                 calls |-> [c \in Callers |-> NotCalled]]

\* Time passes.
ReapTick ==
    /\ ticks < MaxReapTicks
    /\ \E d \in ReapTickDeltas : now' = now + d
    /\ ticks' = ticks + 1
    /\ last' = [op |-> "tick"]
    /\ UNCHANGED <<kind, boards, bucket, latest, inflight, miner, shadow, reaper>>

\* go store.ReapLoop(ctx, shutdown), as main starts it: once.
ReapLoopMain ==
    /\ reaper.calls[1].pc = "idle"
    /\ reaper' = [reaper EXCEPT !.calls[1].pc = "entry"]
    /\ last' = [op |-> "call", c |-> 1]
    /\ UNCHANGED <<now, ticks, kind, boards, bucket, latest, inflight, miner, shadow>>

\* store.ReapLoop(ctx, shutdown), called by any goroutine that holds the store.
ReapLoopCall ==
    \E c \in Callers :
        /\ reaper.calls[c].pc = "idle"
        /\ reaper' = [reaper EXCEPT !.calls[c].pc = "entry"]
        /\ last' = [op |-> "call", c |-> c]
        /\ UNCHANGED <<now, ticks, kind, boards, bucket, latest, inflight, miner, shadow>>

\* if s.reapLoopStarted { panic(...) }
ReapLoopCheck ==
    \E c \in Callers :
        /\ reaper.calls[c].pc = "entry"
        /\ reaper' = [reaper EXCEPT !.calls[c].pc =
                          IF reaper.reapLoopStarted THEN "panicked" ELSE "set"]
        /\ last' = [op |-> "check", c |-> c, started |-> reaper.reapLoopStarted]
        /\ UNCHANGED <<now, ticks, kind, boards, bucket, latest, inflight, miner, shadow>>

\* s.reapLoopStarted = true
ReapLoopStart ==
    \E c \in Callers :
        /\ reaper.calls[c].pc = "set"
        /\ reaper' = [reaper EXCEPT !.reapLoopStarted = TRUE, !.calls[c].pc = "reap"]
        /\ last' = [op |-> "start", c |-> c]
        /\ UNCHANGED <<now, ticks, kind, boards, bucket, latest, inflight, miner, shadow>>

\* reap: s.mut.Lock(); now := s.timeNow()
ReapLock ==
    \E c \in Callers :
        /\ reaper.calls[c].pc = "reap"
        /\ TryLock(reaper.mut)
        /\ reaper' = [reaper EXCEPT
               !.mut = c,
               !.calls[c] = [pc |-> "sweep",
                             sweeps |-> @.sweeps + 1,
                             late |-> @.late + (IF reaper.shutdown THEN 1 ELSE 0),
                             timeNow |-> now, before |-> boards, numReaped |-> 0]]
        /\ last' = [op |-> "lock", c |-> c]
        /\ UNCHANGED <<now, ticks, kind, boards, bucket, latest, inflight, miner, shadow>>

\* reap: one turn of the loop over s.boards that finds an expired board
\* (the turns that find none change nothing).
ReapDelete ==
    \E c \in Callers :
        /\ reaper.calls[c].pc = "sweep"
        /\ \E key \in DOMAIN boards :
               /\ Expired(boards[key], reaper.calls[c].timeNow)
               /\ boards' = MapDelete(boards, {key})
        /\ reaper' = [reaper EXCEPT !.calls[c].numReaped = @ + 1]
        /\ last' = [op |-> "delete", c |-> c]
        /\ UNCHANGED <<now, ticks, kind, bucket, latest, inflight, miner, shadow>>

\* reap: the loop over s.boards is over; the count is logged and returned
\* and the deferred s.mut.Unlock() runs.
ReapUnlock ==
    \E c \in Callers :
        /\ reaper.calls[c].pc = "sweep"
        /\ \A key \in DOMAIN boards : ~Expired(boards[key], reaper.calls[c].timeNow)
        /\ reaper' = [reaper EXCEPT
               !.mut = 0,
               !.calls[c] = [pc |-> "select", sweeps |-> @.sweeps, late |-> @.late,
                             timeNow |-> 0, before |-> EmptyMap, numReaped |-> 0]]
        /\ last' = [op |-> "reap", c |-> c,
                    numReaped |-> reaper.calls[c].numReaped,
                    timeNow |-> reaper.calls[c].timeNow,
                    before |-> reaper.calls[c].before]
        /\ UNCHANGED <<now, ticks, kind, boards, bucket, latest, inflight, miner, shadow>>

\* ReapLoop: the select after a sweep.
ReapLoopSelect ==
    \E c \in Callers :
        /\ reaper.calls[c].pc = "select"
        /\ \E next \in selectShutdown(reaper.shutdown) :
               /\ next = "reap" => reaper.calls[c].sweeps < MaxSweeps
               /\ reaper' = [reaper EXCEPT !.calls[c].pc = next]
               /\ last' = [op |-> "select", c |-> c, shutdown |-> reaper.shutdown,
                           next |-> next]
        /\ UNCHANGED <<now, ticks, kind, boards, bucket, latest, inflight, miner, shadow>>

\* close(shutdown)
Shutdown ==
    /\ ~reaper.shutdown
    /\ reaper' = [reaper EXCEPT !.shutdown = TRUE]
    /\ last' = [op |-> "shutdown"]
    /\ UNCHANGED <<now, ticks, kind, boards, bucket, latest, inflight, miner, shadow>>

\* Get on the store, and the same Get on the store that is never swept.
ReapGet ==
    \E key \in ReapKeys, readFails \in IOFaults(kind) :
        /\ TryLock(reaper.mut)
        /\ \E r \in {BoardStoreGet(kind, boards, bucket, key, now, readFails)},
              sr \in {BoardStoreGet(kind, shadow, bucket, key, now, readFails)} :
               /\ boards' = r.boards
               /\ shadow' = sr.boards
               /\ last' = [op |-> "get", key |-> key, res |-> r.res,
                           shadowRes |-> sr.res,
                           cache |-> Entry(boards, key),
                           shadowCache |-> Entry(shadow, key),
                           sweeping |-> Sweeping(reaper)]
        /\ UNCHANGED <<now, ticks, kind, bucket, latest, inflight, miner, reaper>>

\* Put on the store, and the same Put on the store that is never swept.
ReapPut ==
    \E key \in ReapKeys, fault \in ReapPutFaults(kind) :
        /\ TryLock(reaper.mut)
        /\ \E b \in {ReapBoard(key, now)} :
             \E r \in {BoardStorePut(kind, boards, bucket, key, b, fault)},
                sr \in {BoardStorePut(kind, shadow, bucket, key, b, fault)} :
                 /\ boards' = r.boards
                 /\ shadow' = sr.boards
                 /\ bucket' = r.bucket
                 /\ last' = [op |-> "put", key |-> key, board |-> b, err |-> r.err,
                             sweeping |-> Sweeping(reaper)]
        /\ UNCHANGED <<now, ticks, kind, latest, inflight, miner, reaper>>

\* A store in use while the one ReapLoop of main runs.
NextReap ==
    \/ ReapTick \/ ReapGet \/ ReapPut
    \/ ReapLoopMain \/ ReapLoopCheck \/ ReapLoopStart
    \/ ReapLock \/ ReapDelete \/ ReapUnlock \/ ReapLoopSelect

SpecReap == InitReap /\ [][NextReap]_vars

\* The stores ReapLoop is started on: as in the tests, a board that has
\* expired ten minutes ago, alone or next to a board on its last instant.
ReapLoopStores(t) ==
    {EmptyMap,
     MapSet(EmptyMap, samplePublicKey,
            ReapBoard(samplePublicKey, t - MaxContentAge - 10 * Minute)),
     MapSet(MapSet(EmptyMap, samplePublicKey,
                   ReapBoard(samplePublicKey, t - MaxContentAge - 10 * Minute)),
            otherPublicKey, ReapBoard(otherPublicKey, t - MaxContentAge))}

InitReapLoop ==
    /\ now = stableTime
    /\ ticks = 0
    /\ kind = "memory"
    /\ boards \in ReapLoopStores(now)
    /\ bucket = EmptyMap
    /\ latest = EmptyMap
    /\ inflight = [h \in Handlers |-> Idle]
    /\ last = [op |-> "init"]
    /\ miner = NoMiner
    /\ shadow = boards
    /\ reaper = [reapLoopStarted |-> FALSE, shutdown |-> FALSE, mut |-> 0,
                 calls |-> [c \in Callers |-> NotCalled]]

\* The steps of the calls of ReapLoop.
ReapLoopSteps ==
    \/ ReapLoopCheck \/ ReapLoopStart
    \/ ReapLock \/ ReapDelete \/ ReapUnlock \/ ReapLoopSelect

\* Calls of ReapLoop on a store nobody else uses, and the shutdown.
NextReapLoop == ReapLoopCall \/ Shutdown \/ ReapLoopSteps

\* A goroutine that can take a step takes it.
SpecReapLoop == InitReapLoop /\ [][NextReapLoop]_vars /\ WF_vars(ReapLoopSteps)

(***************************************************************************)
(* The GCPStorageStore and its bucket: Gets with a reader that works or    *)
(* fails, Puts with a writer that works or fails, the reaper, a new        *)
(* process, and the bucket's lifecycle rule deleting old objects. latest   *)
(* holds, by key, the board this process last returned from a Get or took  *)
(* in a Put that succeeded.                                                *)
(***************************************************************************)
\* The board most recently handed out or taken in under a key, and by which
\* operation.
Handled(history, key, board, op) ==
    MapSet(history, key, [board |-> board, by |-> op])

InitCache ==
    /\ now = stableTime
    /\ ticks = 0
    /\ kind = "gcp"
    /\ boards = EmptyMap
    /\ bucket = EmptyMap
    /\ latest = EmptyMap
    /\ inflight = [h \in Handlers |-> Idle]
    /\ last = [op |-> "init"]
    /\ miner = NoMiner
    /\ shadow = EmptyMap
    /\ reaper = NoReaper

\* GCPStorageStore.Get
CacheGet ==
    \E key \in StoreKeys, readFails \in BOOLEAN :
        \E r \in {GCPStorageStoreGet(boards, bucket, key, now, readFails)} :
            /\ boards' = r.boards
            /\ latest' = IF r.res.err = "none"
                         THEN Handled(latest, key, r.res.board, "get")
                         ELSE latest
            /\ last' = [op |-> "get", key |-> key, readFails |-> readFails,
                        res |-> r.res, before |-> StoreAt(boards, bucket),
                        known |-> Entry(latest, key)]
            /\ UNCHANGED <<now, ticks, kind, bucket, inflight, miner, shadow, reaper>>

\* GCPStorageStore.Put
CachePut ==
    \E fault \in PutFaults :
        \E b \in {ReapBoard(samplePublicKey, now)} :
            \E r \in {GCPStorageStorePut(boards, bucket, samplePublicKey, b, fault)} :
                /\ boards' = r.boards
                /\ bucket' = r.bucket
                /\ latest' = IF r.err = "none"
                             THEN Handled(latest, samplePublicKey, b, "put")
                             ELSE latest
                /\ last' = [op |-> "put", key |-> samplePublicKey, board |-> b,
                            fault |-> fault, err |-> r.err,
                            before |-> StoreAt(boards, bucket)]
                /\ UNCHANGED <<now, ticks, kind, inflight, miner, shadow, reaper>>

\* One sweep of the reaper over the memory store.
CacheReap ==
    \E r \in {reap(boards, now)} :
        /\ boards' = r.boards
        /\ last' = [op |-> "reap", numReaped |-> r.numReaped]
        /\ UNCHANGED <<now, ticks, kind, bucket, latest, inflight, miner, shadow, reaper>>

\* The process ends and another starts on the same bucket: its memory store
\* is empty and it has handled no board yet.
CacheRestart ==
    /\ boards # EmptyMap
    /\ boards' = EmptyMap
    /\ latest' = EmptyMap
    /\ last' = [op |-> "restart"]
    /\ UNCHANGED <<now, ticks, kind, bucket, inflight, miner, shadow, reaper>>

\* The delete lifetime policy of the bucket removes an object whose board
\* has expired.
Lifecycle ==
    \E key \in DOMAIN bucket :
        /\ After(now, Add(bucket[key].timestamp, MaxContentAge))
        /\ bucket' = MapDelete(bucket, {key})
        /\ last' = [op |-> "lifecycle", key |-> key]
        /\ UNCHANGED <<now, ticks, kind, boards, latest, inflight, miner, shadow, reaper>>

NextCache == ReapTick \/ CacheGet \/ CachePut \/ CacheReap \/ CacheRestart \/ Lifecycle

SpecCache == InitCache /\ [][NextCache]_vars

(***************************************************************************)
(* Properties of requests whose store access fails.                        *)
(***************************************************************************)
\* The last request passed the key checks of its handler (and, for a PUT,
\* the body, signature and timestamp checks) and went on to the store.
ReachedStore ==
    /\ IsRequest
    /\ last.key # TestPublicKey
    /\ IF last.op = "GET"
       THEN ParseKey(last.key, now).err = "none" /\ ~Contains(last.key)
       ELSE PutKeyChecks(last.key, last.content, last.sig, now).ok

\* The store access of the last request returned an I/O error: the Get of a
\* request that reached the store, or the Put of a GET of the test key.
StoreFailed ==
    \/ /\ ReachedStore
       /\ BoardStoreGet(kind, last.before.boards, last.before.bucket,
                        last.key, now, last.io).res = ErrIO
    \/ /\ last.op = "GET" /\ last.key = TestPublicKey
       /\ BoardStorePut(kind, last.before.boards, last.before.bucket, TestPublicKey,
                        TestKeyBoard(last.quote, now),
                        IF last.io THEN "unwritten" ELSE "none").err # "none"

\* C21: a request whose store Get or Put returned an error other than
\* not-found ends in 500 with the generic internal-error message; no PUT is
\* answered 200 after its store read failed.
C21_StoreFailureIs500 ==
    (IsRequest /\ StoreFailed) => last.resp = InternalError


(***************************************************************************)
(* Properties of the reaper.                                               *)
(***************************************************************************)
\* C22: whatever the reaper has swept, every Get returns what the same Get
\* returns from the store that was given the same Gets and Puts and was
\* never swept: the same board, or the same error.
C22_ReaperUnobservable ==
    last.op = "get" => last.res = last.shadowRes

\* A Get of a key whose board the reaper has deleted, and which the store
\* that was never swept still holds.
C22_Witness ==
    /\ last.op = "get"
    /\ last.shadowCache.had
    /\ ~last.cache.had
    /\ reaper.calls[1].sweeps > 0

\* The entries of a map that a sweep at time t has to keep: those with
\* t no later than their timestamp plus 22 days.
KeptAt(before, t) ==
    [k \in {x \in DOMAIN before : t <= before[x].Timestamp + 22 * 24 * 60 * 60}
        |-> before[k]]

\* C28: when a sweep ends, the map holds the entries it held when the sweep
\* began without those older than 22 days at the sweep's now, unchanged, and
\* the count returned is the number of entries deleted; no Get and no Put
\* runs while a sweep is under way.
C28_SweepDeletesExpired ==
    /\ last.op = "reap" =>
           /\ boards = KeptAt(last.before, last.timeNow)
           /\ last.numReaped =
                  Cardinality(DOMAIN last.before) - Cardinality(DOMAIN boards)
    /\ last.op \in {"get", "put"} => last.sweeping = {}

\* A sweep that deleted a board and kept one on its last instant.
C28_Witness ==
    /\ last.op = "reap"
    /\ last.numReaped > 0
    /\ \E k \in DOMAIN boards :
           last.timeNow = boards[k].Timestamp + 22 * 24 * 60 * 60


\* A call of ReapLoop is inside its loop.
InLoop(c) == reaper.calls[c].pc \in {"reap", "sweep", "select"}

\* C23: a call of ReapLoop has swept once when it first comes to the select
\* on shutdown, and that sweep leaves no expired board behind even when
\* shutdown was closed before the call; at most one of its sweeps begins
\* with shutdown closed; once it has returned it does nothing more; and
\* after shutdown is closed every call in its loop returns.
C23_ReapLoopShutdown ==
    /\ [](\A c \in Callers :
              /\ reaper.calls[c].pc \in {"select", "returned"}
                     => reaper.calls[c].sweeps >= 1
              /\ reaper.calls[c].late <= 1)
    /\ [](last.op = "reap" =>
              \A k \in DOMAIN boards :
                  last.timeNow <= boards[k].Timestamp + 22 * 24 * 60 * 60)
    /\ [][\A c \in Callers :
              reaper.calls[c].pc = "returned" =>
                  /\ reaper'.calls[c] = reaper.calls[c]
                  /\ reaper'.mut # c]_vars
    /\ (reaper.shutdown ~> (\A c \in Callers : ~InLoop(c)))

\* A call made after shutdown was closed has swept once, deleted the expired
\* board of the store it was started on, and returned.
C23_Witness ==
    \E c \in Callers :
        /\ reaper.calls[c].pc = "returned"
        /\ reaper.calls[c].sweeps = 1
        /\ reaper.calls[c].late = 1
        /\ samplePublicKey \in DOMAIN shadow
        /\ samplePublicKey \notin DOMAIN boards


\* The calls of ReapLoop that got past the check of reapLoopStarted.
PastCheck == {c \in Callers : reaper.calls[c].pc \notin {"idle", "entry", "panicked"}}

\* C29: at most one call of ReapLoop ever gets past the check of
\* reapLoopStarted and into the loop; every other call panics.
C29_OneReapLoop == Cardinality(PastCheck) <= 1


(***************************************************************************)
(* Properties of the GCPStorageStore and its cache.                        *)
(***************************************************************************)
\* The board this process last handled under the key of the last Get is
\* still fresh.
KnownFresh ==
    /\ last.known.had
    /\ now <= last.known.board.board.Timestamp + 22 * 24 * 60 * 60

\* The last Get is answered with the board last handled under its key,
\* whatever the bucket holds and whether or not its reader works.
AnsweredFromCache ==
    (last.op = "get" /\ KnownFresh) => last.res = Found(last.known.board.board)

\* The last Get went to a bucket that holds no object for its key and whose
\* reader works.
NoSuchObject ==
    /\ last.op = "get"
    /\ ~KnownFresh
    /\ ~last.readFails
    /\ last.key \notin DOMAIN last.before.bucket

\* C24 as stated: a Get that follows a Get that loaded a board or a Put that
\* succeeded, while the board is fresh, returns it without reading the
\* bucket; a Get the bucket answers with "no such object" returns not-found
\* and the cache then holds no entry for the key.
C24_CacheFirstNoEntry ==
    /\ AnsweredFromCache
    /\ NoSuchObject => (last.res = ErrKeyNotFound /\ last.key \notin DOMAIN boards)

\* C24, amended: ... a Get the bucket answers with "no such object" returns
\* not-found and leaves the cache as it was, which is without a fresh entry
\* for the key (an expired entry the reaper has not yet swept stays).
C24_CacheFirst ==
    /\ AnsweredFromCache
    /\ NoSuchObject =>
           /\ last.res = ErrKeyNotFound
           /\ boards = last.before.boards
           /\ last.key \in DOMAIN boards =>
                  now > boards[last.key].Timestamp + 22 * 24 * 60 * 60

\* A Get is answered with the board an earlier Get loaded from the bucket,
\* by a store whose reader fails and whose bucket holds another object.
C24_Witness ==
    /\ last.op = "get"
    /\ KnownFresh
    /\ last.known.board.by = "get"
    /\ last.readFails
    /\ last.res.err = "none"
    /\ last.key \in DOMAIN bucket
    /\ ToBoard(bucket[last.key]) # last.res.board


\* The last Get or Put changed the memory store.
CacheChanged == boards # last.before.boards

\* C30: a Put whose writer fails returns an error and leaves the cache as it
\* was; a Put that succeeds has written the object and then the cache; a
\* Get that fails or finds nothing fresh leaves the cache as it was; and
\* whenever a Get or a Put changes the cache, it sets the entry of its key
\* to the board the bucket holds under that key.
C30_BucketBeforeCache ==
    /\ (last.op = "put" /\ last.fault # "none") =>
           (last.err # "none" /\ ~CacheChanged)
    /\ (last.op = "put" /\ last.fault = "none") =>
           /\ last.err = "none"
           /\ bucket[last.key] = serializedBoardFrom(last.board)
           /\ boards[last.key] = last.board
    /\ (last.op = "get" /\ last.res.err # "none") => ~CacheChanged
    /\ (last.op \in {"get", "put"} /\ CacheChanged) =>
           /\ last.key \in DOMAIN bucket
           /\ boards = MapSet(last.before.boards, last.key, ToBoard(bucket[last.key]))

\* A Put whose writer failed after the object had reached the bucket left
\* the older board of an earlier Put in the cache.
C30_Witness ==
    /\ last.op = "put"
    /\ last.fault = "written"
    /\ last.key \in DOMAIN boards
    /\ boards[last.key] # last.board
    /\ bucket[last.key] = serializedBoardFrom(last.board)


(***************************************************************************)
(* Properties of the boards the handlers store.                            *)
(***************************************************************************)
\* A board as the protocol wants it: at most 2217 bytes of content with one
\* <time> tag, which parses and gives the board's timestamp.
WellFormedBoard(b) ==
    /\ b.Content.size <= 2217
    /\ Len(b.Content.tags) = 1
    /\ b.Content.tags[1].ok
    /\ b.Timestamp = b.Content.tags[1].t

\* C26: every board the store holds has content of at most 2217 bytes with
\* exactly one <time> tag, and its timestamp is the time of that tag.
C26_HeldBoardsWellFormed ==
    \A key \in DOMAIN boards : WellFormedBoard(boards[key])


(***************************************************************************)
(* Properties of what requests do to the store.                            *)
(***************************************************************************)
\* What the store returns for a key to a reader that works.
Holds(cache, objects, key) == BoardStoreGet(kind, cache, objects, key, now, FALSE).res

\* The last request is one that must not write: a GET of another key than
\* the test key, or a PUT that ended in an error.
MustNotWrite ==
    \/ last.op = "GET" /\ last.key # TestPublicKey
    \/ last.op = "PUT" /\ last.resp.status # 200

OrderKeys ==
    {TestPublicKey, TestPrivateKey, expiredKey, notYetValidKey,
     InfernalPublicKey, samplePublicKey}

\* Body lengths: the longest one allowed and one byte more.
OrderSizes == {MaxContentSize, MaxContentSize + 1}

\* Spring-Signature headers, by what is wrong with them.
OrderSigFlaws == {"missing", "nothex", "short", "wrong", "none"}

\* The header of a request: absent, not hex, hex of two bytes, the signature
\* of the same key over another body, or the signature over the body.
OrderSig(flaw, key, content) ==
    CASE flaw = "missing" -> EmptyHeader
      [] flaw = "nothex"  -> NotHex
      [] flaw = "short"   -> ShortHex
      [] flaw = "wrong"   -> SignHex(key, Content(content.size, content.tags, "tampered"))
      [] OTHER            -> SignHex(key, content)

\* The <time> tags of a body: none, one that time.Parse rejects, one beyond
\* the tolerance in the future, one too old, one a second behind now and one
\* at now.
OrderTags(t) ==
    {<<>>, <<BadTag>>,
     <<Tag(t + TimestampTolerance + 1 * Second)>>,
     <<Tag(t - MaxContentAge - TimestampTolerance - 1 * Second)>>,
     <<Tag(t - 1 * Second)>>, <<Tag(t)>>}

OrderRequests(t) ==
    {[key |-> key, content |-> Content(size, tags, "board"), flaw |-> flaw,
      sig |-> OrderSig(flaw, key, Content(size, tags, "board"))] :
        key \in OrderKeys, size \in OrderSizes, tags \in OrderTags(t),
        flaw \in OrderSigFlaws}

\* handlePutKey on one of these requests, with a body that can be read and a
\* store whose reads succeed.
OrderPut ==
    \E req \in OrderRequests(now) :
        \E pre \in {PutKeyChecks(req.key, req.content, req.sig, now)} :
            \E r \in {IF pre.ok
                       THEN PutKeyFinish(kind, boards, bucket, req.key, req.content,
                                         req.sig, pre.timestamp, now, FALSE)
                       ELSE PutKeyRejected(boards, bucket, pre.resp)} :
                /\ boards' = r.boards
                /\ bucket' = r.bucket
                /\ last' = [op |-> "PUT", key |-> req.key, content |-> req.content,
                            sig |-> req.sig, flaw |-> req.flaw, io |-> FALSE,
                            resp |-> r.resp, before |-> StoreAt(boards, bucket)]
                /\ UNCHANGED <<now, ticks, kind, latest, inflight, miner, shadow, reaper>>

NextOrder == OrderPut \/ AccessSeed \/ Restart

SpecOrder == InitAccess /\ [][NextOrder]_vars

(***************************************************************************)
(* Properties of the order of handlePutKey's checks                        *)
(***************************************************************************)

\* The board the store had for the request's key before the request.
CurrentBoard == Holds(last.before.boards, last.before.bucket, last.key)

\* The first check of the list that the last request fails, written from
\* the request alone: its key, the length of its body, what is wrong with
\* its header, the first tag of its body and the board the store had.
FirstFailing ==
    IF last.key = TestPublicKey THEN <<401, ErrMessageTestKey>>
    ELSE IF Verdict(last.key, now) = "KeyInvalid" THEN <<403, ErrMessageKeyInvalid>>
    ELSE IF Verdict(last.key, now) = "KeyExpired" THEN <<403, ErrMessageKeyExpired>>
    ELSE IF Verdict(last.key, now) = "KeyNotYetValid" THEN <<403, ErrMessageKeyNotYetValid>>
    ELSE IF last.key = InfernalPublicKey THEN <<403, ErrMessageDeniedKey>>
    ELSE IF last.content.size > 2217 THEN <<413, "ErrMessageContentTooLarge">>
    ELSE IF last.flaw = "missing" THEN <<400, "ErrMessageSignatureMissing">>
    ELSE IF last.flaw = "nothex" THEN <<400, "ErrMessageSignatureUnparseable">>
    ELSE IF last.flaw = "short" THEN <<400, "ErrMessageSignatureBadLength">>
    ELSE IF last.flaw = "wrong" THEN <<401, "ErrMessageSignatureInvalid">>
    ELSE IF last.content.tags = <<>> THEN <<400, "ErrMessageTimestampMissing">>
    ELSE IF ~last.content.tags[1].ok THEN <<400, "ErrMessageTimestampUnparseable">>
    ELSE IF last.content.tags[1].t > now + 5 * 60
    THEN <<400, "ErrMessageTimestampInFuture">>
    ELSE IF last.content.tags[1].t + 5 * 60 < now - 22 * 24 * 3600
    THEN <<400, "ErrMessageTimestampTooOld">>
    ELSE IF CurrentBoard.err = "none"
            /\ CurrentBoard.board.Timestamp > last.content.tags[1].t
    THEN <<409, "ErrMessageTimestampOlderThanCurrent">>
    ELSE <<200, "">>

OrderedPut == last.op = "PUT" /\ "flaw" \in DOMAIN last

\* C27: a PUT whose body can be read is answered with the error of the first
\* check it fails in the order test key (401), key validity (403), denylist
\* (403), body over 2217 bytes (413), signature header missing, not hex, not
\* 64 bytes (400 each), signature not verifying (401), timestamp tag missing,
\* unparseable, in the future, too old (400 each), older than the current
\* board (409); an oversized body from a valid key that is not denied gets
\* 413 whatever its header, an unverifiable 64-byte signature gets 401
\* whatever the tags of the body, and every answer before the last check
\* leaves the store, the cache of a GCP store included, as it was.
C27_FirstFailingCheck ==
    OrderedPut =>
        /\ last.resp.status = FirstFailing[1]
        /\ FirstFailing[1] # 200 => last.resp.body = FirstFailing[2]
        /\ (/\ last.key \notin {TestPublicKey, InfernalPublicKey}
            /\ Verdict(last.key, now) = "none"
            /\ last.content.size > 2217) => last.resp.status = 413
        /\ (/\ last.key \notin {TestPublicKey, InfernalPublicKey}
            /\ Verdict(last.key, now) = "none"
            /\ last.content.size <= 2217
            /\ last.flaw = "wrong") => last.resp.status = 401
        /\ last.resp.status \notin {200, 409} => StoreUntouched

\* A PUT for a valid key with a signature over another body and a tag in the
\* future, sent to a restarted GCP store whose bucket holds a board for the
\* key, is answered 401 and the cache stays empty.
C27_Witness ==
    /\ OrderedPut
    /\ kind = "gcp"
    /\ last.key = samplePublicKey
    /\ last.flaw = "wrong"
    /\ last.content.size = MaxContentSize
    /\ last.content.tags = <<Tag(now + TimestampTolerance + 1 * Second)>>
    /\ last.resp.status = 401
    /\ samplePublicKey \in DOMAIN bucket
    /\ boards = EmptyMap

(***************************************************************************)
(* GCPStorageStore.Get and GCPStorageStore.Put called by two goroutines,   *)
(* step by step. The memory store's calls are atomic (they hold its        *)
(* mutex); the GCPStorageStore holds no lock of its own between a bucket   *)
(* access and the memory store call that follows it. The reader and the    *)
(* writer work.                                                            *)
(***************************************************************************)
\* Put: the board is encoded to the bucket writer and the writer closed.
RacePutWrite ==
    \E h \in Handlers, b \in SeedBoards(samplePublicKey, now) :
        /\ inflight[h].pc = "idle"
        /\ bucket' = MapSet(bucket, samplePublicKey, serializedBoardFrom(b))
        /\ inflight' = [inflight EXCEPT ![h] = [pc |-> "putWritten", board |-> b]]
        /\ last' = [op |-> "put", h |-> h, step |-> "write"]
        /\ UNCHANGED <<now, ticks, kind, boards, latest, miner, shadow, reaper>>

\* Put: s.memoryStore.Put, and the return.
RacePutCache ==
    \E h \in Handlers :
        /\ inflight[h].pc = "putWritten"
        /\ boards' = MemoryStorePut(boards, samplePublicKey, inflight[h].board)
        /\ inflight' = [inflight EXCEPT ![h] = Idle]
        /\ last' = [op |-> "put", h |-> h, step |-> "cache"]
        /\ UNCHANGED <<now, ticks, kind, bucket, latest, miner, shadow, reaper>>

\* Get: s.memoryStore.Get; the board is returned when it is there.
RaceGetCache ==
    \E h \in Handlers :
        /\ inflight[h].pc = "idle"
        /\ inflight' = [inflight EXCEPT ![h] =
               IF MemoryStoreGet(boards, samplePublicKey, now).err = "none"
               THEN Idle
               ELSE [pc |-> "getMissed"]]
        /\ last' = [op |-> "get", h |-> h, step |-> "cache"]
        /\ UNCHANGED <<now, ticks, kind, boards, bucket, latest, miner, shadow, reaper>>

\* Get: the object is read from the bucket and decoded; ErrKeyNotFound is
\* returned when there is none.
RaceGetRead ==
    \E h \in Handlers :
        /\ inflight[h].pc = "getMissed"
        /\ inflight' = [inflight EXCEPT ![h] =
               IF samplePublicKey \notin DOMAIN bucket
               THEN Idle
               ELSE [pc |-> "getRead", storageBoard |-> bucket[samplePublicKey]]]
        /\ last' = [op |-> "get", h |-> h, step |-> "read"]
        /\ UNCHANGED <<now, ticks, kind, boards, bucket, latest, miner, shadow, reaper>>

\* Get: a stale board is answered ErrKeyNotFound; any other is put into the
\* memory store and returned.
RaceGetFill ==
    \E h \in Handlers :
        /\ inflight[h].pc = "getRead"
        /\ boards' = IF After(now, Add(inflight[h].storageBoard.timestamp, MaxContentAge))
                     THEN boards
                     ELSE MemoryStorePut(boards, samplePublicKey,
                                         ToBoard(inflight[h].storageBoard))
        /\ inflight' = [inflight EXCEPT ![h] = Idle]
        /\ last' = [op |-> "get", h |-> h, step |-> "fill"]
        /\ UNCHANGED <<now, ticks, kind, bucket, latest, miner, shadow, reaper>>

NextRace == RacePutWrite \/ RacePutCache \/ RaceGetCache \/ RaceGetRead \/ RaceGetFill

SpecRace == InitCache /\ [][NextRace]_vars

(***************************************************************************)
(* Properties of concurrent calls of the GCPStorageStore                   *)
(***************************************************************************)
\* No Get and no Put is in progress.
Quiescent == \A h \in Handlers : inflight[h].pc = "idle"

\* C31: whenever no Get or Put is in progress, the memory store's entry for
\* a key, if there is one, is the board of the object the bucket holds for
\* that key.
C31_CacheEqualsBucket ==
    (Quiescent /\ samplePublicKey \in DOMAIN boards)
        => /\ samplePublicKey \in DOMAIN bucket
           /\ boards[samplePublicKey] = ToBoard(bucket[samplePublicKey])

(***************************************************************************)
(* Properties of an accepted PUT and the GET that follows it               *)
(***************************************************************************)
\* C32: the timestamp of a PUT accepted at now is one the store regards as
\* fresh at now (now <= ts + 22 days), and a GET of the same key without
\* If-Modified-Since right after an accepted PUT whose body is more than a
\* <time> tag is answered 200 with the board just accepted.
C32_AcceptedPutIsFresh ==
    /\ [](AcceptedPut => now <= TimestampOf(last.content) + 22 * 24 * 3600)
    /\ [][(/\ AcceptedPut
           /\ ~isTimestampOnly(last.content)
           /\ last'.op = "GET"
           /\ last'.key = last.key
           /\ last'.ims = NoHeader)
          => /\ last'.resp.status = 200
             /\ last'.resp.body = last.content
             /\ last'.resp.SpringSignature = last.sig]_vars

(***************************************************************************)
(* The key generator under a fair scheduler: a goroutine that can take a   *)
(* step takes one, the workers and the caller waiting in errGroup.Wait     *)
(* alike.                                                                  *)
(***************************************************************************)
\* A step of worker w.
WorkerStep(w) == NextMiner /\ miner'.workers[w] # miner.workers[w]

SpecMinerFair ==
    /\ InitMiner
    /\ [][NextMiner]_vars
    /\ \A w \in Workers : WF_vars(WorkerStep(w))
    /\ WF_vars(MinerReturn)

(***************************************************************************)
(* Properties of the key generator's termination                           *)
(***************************************************************************)
\* Some worker has generated a key pair that matches the suffix.
KeyFound ==
    /\ miner.pc = "wait"
    /\ \/ miner.conformingKeyChan # <<>>
       \/ \E w \in Workers : miner.workers[w].pc = "send"

AllReturned == \A w \in Workers : miner.workers[w].pc = "returned"

WorkerFailed == \E w \in Workers : miner.workers[w].pc = "returned" /\ miner.workers[w].err

\* C33: once a worker has found a matching key pair, every worker comes to
\* see the done flag and returns, and then the call returns; when it returns
\* every worker has returned, the key pair it returns is the first that was
\* sent into the channel, and when a worker failed generating a key it
\* returns an error and no key pair.
C33_MinerTerminates ==
    /\ KeyFound ~> AllReturned
    /\ AllReturned ~> miner.pc = "returned"
    /\ [](miner.pc = "returned" => AllReturned)
    /\ [][(miner.pc = "wait" /\ miner.conformingKeyChan # <<>>)
             => /\ miner'.pc = "wait" =>
                      Head(miner'.conformingKeyChan) = Head(miner.conformingKeyChan)
                /\ (miner'.pc = "returned" /\ ~miner'.err) =>
                      miner'.keyPair = Head(miner.conformingKeyChan)]_vars
    /\ []((miner.pc = "returned" /\ WorkerFailed)
             => miner.err /\ miner.keyPair = ed25519KeyPair(<<>>, <<>>))
    /\ []((miner.pc = "returned" /\ ~WorkerFailed) => ~miner.err)

\* The call has returned the first of two key pairs in the channel, the two
\* being different.
C33_Witness ==
    /\ miner.pc = "returned"
    /\ ~miner.err
    /\ Len(miner.conformingKeyChan) = 1
    /\ miner.conformingKeyChan[1] # miner.keyPair

(***************************************************************************)
(* Properties of the key generator's iteration count                       *)
(***************************************************************************)
\* The number of key pairs the workers have sent, all together.
RECURSIVE SentBy(_)
SentBy(ws) ==
    IF ws = {} THEN 0
    ELSE miner.sent[CHOOSE w \in ws : TRUE]
           + SentBy(ws \ {CHOOSE w \in ws : TRUE})

\* The key pairs generated so far: those that did not match and those that
\* were sent.
Generated == miner.attempts + SentBy(Workers)

\* C34: the total a successful call returns is the number of key pairs its
\* workers generated, all workers together; with the empty suffix no worker
\* generates more than one key pair and the total is at most the number of
\* workers.
C34_TotalIsSum ==
    MinerReturnedKey
        => /\ miner.totalIterations = Generated
           /\ miner.targetSuffix = <<>> =>
                  /\ miner.attempts = 0
                  /\ \A w \in Workers : miner.sent[w] <= 1
                  /\ miner.totalIterations <= NumCPU

\* A call has returned after key pairs that did not match and two that did:
\* its total counts them all.
C34_Witness ==
    /\ MinerReturnedKey
    /\ miner.attempts = MaxAttempts
    /\ SentBy(Workers) = 2
    /\ miner.totalIterations = MaxAttempts + 2

(***************************************************************************)
(* hexBytes and suffixBytesEqual called on byte strings and hex suffixes.  *)
(***************************************************************************)
MaxBytes == 2

\* Bytes with a zero nibble on either side, on both and on neither.
SuffixByteValues == {0, 10, 160, 170}

\* Hex digits of suffixes, lower and upper case.
SuffixDigits == {"0", "a", "A"}

RECURSIVE SeqsUpTo(_, _)
SeqsUpTo(S, n) ==
    IF n = 0 THEN {<<>>}
    ELSE SeqsUpTo(S, n - 1)
           \cup {Append(q, x) : q \in {p \in SeqsUpTo(S, n - 1) : Len(p) = n - 1}, x \in S}

\* A byte string of one byte or more and a suffix of at most twice as many
\* hex digits.
SuffixInputs ==
    {[b |-> b, s |-> s] :
        b \in SeqsUpTo(SuffixByteValues, MaxBytes) \ {<<>>},
        s \in SeqsUpTo(SuffixDigits, 2 * MaxBytes)}

InitSuffix ==
    /\ now = stableTime
    /\ ticks = 0
    /\ kind = "memory"
    /\ boards = EmptyMap
    /\ bucket = EmptyMap
    /\ latest = EmptyMap
    /\ inflight = [h \in Handlers |-> Idle]
    /\ \E in \in SuffixInputs :
           /\ Len(in.s) <= 2 * Len(in.b)
           /\ last = [op |-> "input", b |-> in.b, s |-> in.s]
    /\ miner = NoMiner
    /\ shadow = EmptyMap
    /\ reaper = NoReaper

\* targetSuffixBytes, oddChars := hexBytes(s)
hexBytesCall ==
    /\ last.op = "input"
    /\ last' = [op |-> "hexBytes", b |-> last.b, s |-> last.s,
                suffix |-> hexBytes(last.s).bytes, oddChars |-> hexBytes(last.s).oddChars]
    /\ UNCHANGED <<now, ticks, kind, boards, bucket, latest, inflight, miner, shadow, reaper>>

\* suffixBytesEqual(b, targetSuffixBytes, oddChars)
suffixBytesEqualCall ==
    /\ last.op = "hexBytes"
    /\ last' = [op |-> "suffixBytesEqual", b |-> last.b, s |-> last.s,
                suffix |-> last.suffix, oddChars |-> last.oddChars,
                res |-> suffixBytesEqual(last.b, last.suffix, last.oddChars)]
    /\ UNCHANGED <<now, ticks, kind, boards, bucket, latest, inflight, miner, shadow, reaper>>

NextSuffix == hexBytesCall \/ suffixBytesEqualCall

SpecSuffix == InitSuffix /\ [][NextSuffix]_vars

(***************************************************************************)
(* Properties of suffixBytesEqual                                          *)
(***************************************************************************)
\* A hex string in lower case, as hex.EncodeToString writes its digits.
ToLower(str) == [i \in 1..Len(str) |-> IF str[i] = "A" THEN "a" ELSE str[i]]

validKeyAge == 2 * 365 * 24 * Hour

\* A number below 100 in two decimal digits.
TwoDigits(n) == <<hextable[(n \div 10) + 1], hextable[(n % 10) + 1]>>

\* Time.Format("0106"): the month and the year of the century, two digits
\* each.
expiryDigitsTimeFormat(t) == TwoDigits(MonthOf(t)) \o TwoDigits(YearOf(t) % 100)

\* keySuffixWithExpiry
keySuffixWithExpiry(t) ==
    <<"8", "3", "e">> \o expiryDigitsTimeFormat(Add(t, validKeyAge))

\* Times at which a key is generated: the first second, the middle, the
\* 28th and the last second of months next to the turn of a year and to the
\* end of February, in years before, in and after leap years and at the end
\* of the century.
GenerationYears == {2022, 2023, 2024, 2098, 2099}
GenerationMonths == {1, 2, 3, 12}
GenerationTimes ==
    UNION {{Date(y, m, 1, 0, 0, 0), Date(y, m, 15, 12, 0, 0),
            Date(y, m, 28, 23, 59, 59), Date(y, m + 1, 1, 0, 0, 0) - 1 * Second} :
              y \in GenerationYears, m \in GenerationMonths}

\* The digits the generated key may have in front of its suffix.
GeneratedPrefixes == {"0", "e"}

InitGenerate ==
    /\ now \in GenerationTimes
    /\ ticks = 0
    /\ kind = "memory"
    /\ boards = EmptyMap
    /\ bucket = EmptyMap
    /\ latest = EmptyMap
    /\ inflight = [h \in Handlers |-> Idle]
    /\ last = [op |-> "init"]
    /\ miner = NoMiner
    /\ shadow = EmptyMap
    /\ reaper = NoReaper

\* GenerateConformingKey(ctx, now) computes the suffix to look for.
keySuffixWithExpiryCall ==
    /\ last.op = "init"
    /\ last' = [op |-> "keySuffixWithExpiry", t |-> now, res |-> keySuffixWithExpiry(now)]
    /\ UNCHANGED <<now, ticks, kind, boards, bucket, latest, inflight, miner, shadow, reaper>>

\* A public key that ends with the suffix is found and, at the same time,
\* given to ParseKey.
ParseGeneratedKey ==
    /\ last.op = "keySuffixWithExpiry"
    /\ \E c \in GeneratedPrefixes :
           last' = [op |-> "ParseKey", key |-> Prefix(c) \o last.res,
                    res |-> ParseKey(Prefix(c) \o last.res, now)]
    /\ UNCHANGED <<now, ticks, kind, boards, bucket, latest, inflight, miner, shadow, reaper>>

NextGenerate == keySuffixWithExpiryCall \/ ParseGeneratedKey

SpecGenerate == InitGenerate /\ [][NextGenerate]_vars

(***************************************************************************)
(* Properties of the generated key's suffix                                *)
(***************************************************************************)
\* C36: keySuffixWithExpiry(t) is "83e", the two-digit month of t and the
\* two digits of the year of t plus two.
C36_SuffixIsSameMonth ==
    last.op = "keySuffixWithExpiry"
        => last.res = <<"8", "3", "e">> \o TwoDigits(MonthOf(last.t))
                                        \o TwoDigits((YearOf(last.t) + 2) % 100)

\* C37: a key of 64 hex digits that ends with keySuffixWithExpiry(now)
\* passes ParseKey at that same now.
C37_GeneratedKeyIsValid ==
    (last.op = "ParseKey" /\ "key" \in DOMAIN last) => last.res.err = "none"

(***************************************************************************)
(* TimeoutMiddleware.Wrapper around a handler: around the handlers of its  *)
(* tests, and around Server.wrapEndpoint. The context's error is read when *)
(* the handler under it has returned.                                      *)
(***************************************************************************)
\* The writer after the handlers of TestTimeoutMiddlewareWrapper: one
\* writes nothing, one a status, one a body.
TestHandlerWriters ==
    {NewRecorder, WriteHeader(NewRecorder, 201), Write(NewRecorder, "hello")}

\* The middleware around a handler of its tests.
TimeoutWrapperCall ==
    \E inner \in TestHandlerWriters, ctxErr \in ContextErrs,
       elapsed \in {1 * Second, 2 * Second} :
        /\ last' = [op |-> "timeout", next |-> "handlerFunc", inner |-> inner,
                    ctxErr |-> ctxErr, elapsed |-> elapsed,
                    w |-> TimeoutWrapper(inner, ctxErr, elapsed)]
        /\ UNCHANGED <<now, ticks, kind, boards, bucket, latest, inflight, miner, shadow, reaper>>

\* The middleware around wrapEndpoint, whose handler returns result.
TimeoutWrapEndpoint ==
    \E result \in HandlerResults, ctxErr \in ContextErrs,
       elapsed \in {1 * Second, 2 * Second} :
        \E inner \in {wrapEndpoint(NewRecorder, result)} :
            /\ last' = [op |-> "timeout", next |-> "wrapEndpoint", inner |-> inner,
                        ctxErr |-> ctxErr, elapsed |-> elapsed,
                        w |-> TimeoutWrapper(inner, ctxErr, elapsed)]
            /\ UNCHANGED <<now, ticks, kind, boards, bucket, latest, inflight, miner, shadow, reaper>>

NextTimeout == TimeoutWrapperCall \/ TimeoutWrapEndpoint

SpecTimeout == InitHTTP /\ [][NextTimeout]_vars

(***************************************************************************)
(* Properties of TimeoutMiddleware                                         *)
(***************************************************************************)
ThroughTimeout == last.op = "timeout"

\* C38: when the context's error is Canceled or DeadlineExceeded as the
\* handler under it returns, TimeoutMiddleware calls WriteHeader(504) and
\* writes the "canceled after" resp. "timed out after" message, and 504 is
\* the status sent when the handler had sent none; when the context has no
\* error the middleware writes nothing and the response is the handler's.
C38_TimeoutWrites504 ==
    ThroughTimeout =>
        /\ last.ctxErr = "Canceled" =>
               /\ last.w.headerCalls = last.inner.headerCalls + 1
               /\ last.w.Body = Append(last.inner.Body,
                                       [message |-> "ErrMessageCanceled",
                                        elapsed |-> last.elapsed])
               /\ last.inner.Code = 0 => last.w.Code = 504
        /\ last.ctxErr = "DeadlineExceeded" =>
               /\ last.w.headerCalls = last.inner.headerCalls + 1
               /\ last.w.Body = Append(last.inner.Body,
                                       [message |-> "ErrMessageTimeout",
                                        elapsed |-> last.elapsed])
               /\ last.inner.Code = 0 => last.w.Code = 504
        /\ last.ctxErr = "nil" => last.w = last.inner

\* A handler that wrote nothing returns with the context canceled: the
\* response is the 504 and the one message.
C38_Witness ==
    /\ ThroughTimeout
    /\ last.next = "handlerFunc"
    /\ last.inner = NewRecorder
    /\ last.ctxErr = "Canceled"
    /\ last.w.Code = 504
    /\ Len(last.w.Body) = 1

\* C39: a request served by TimeoutMiddleware around wrapEndpoint has one
\* status written and one body written: the middleware does not write its
\* 504 and its message after wrapEndpoint has written.
C39_OneStatusOneBody ==
    (ThroughTimeout /\ last.next = "wrapEndpoint")
        => /\ last.w.headerCalls <= 1
           /\ Len(last.w.Body) = 1

=============================================================================
